---- MODULE Spec2Model ----
(***************************************************************************)
(* Thai law extractor and hierarchy-aware chunker                          *)
(* (thai-legal-rag: src/ingestion/law_extractor.py, chunker_law.py).       *)
(*                                                                         *)
(* Strings are sequences of tokens; "" is <<>>, concatenation is \o.       *)
(* Thai keywords are written in transliteration (matra = Section,          *)
(* kho = Clause, phak = Part, muat = Chapter, wak = paragraph).            *)
(* len(s) is StrLen(s): the sum of the character counts of its tokens.     *)
(***************************************************************************)
EXTENDS Integers, Sequences, FiniteSets, TLC

VARIABLES
    \* ---- chunk_law_document (chunker_law.py) ----
    doc,              \* the LawDocument argument
    cpc,              \* position in chunk_law_document: "start", "loop", "done"
    sec_i,            \* index of the next element of `for sec in doc.sections`
    chunks,           \* list[Chunk] built so far
    chunk_index,      \* next chunk_index
    pending,          \* pending short sections
    pending_chars,
    pending_chapter,  \* None or a chapter string
    covered,          \* history: per emitted chunk, the positions of the sections it was built from
    \* ---- extract_law (law_extractor.py) ----
    cache,            \* OCR_CACHE_DIR: cache path -> record, or NoFile
    md_files,         \* MD_BACKUP_DIR: file stem -> Markdown text, or NoFile
    epc,              \* position in extract_law
    args,             \* (pdf_bytes, file_id, filename, force) of the running call
    text,             \* local `text`
    ocr_engine,       \* local `ocr_engine`
    law_meta,         \* (law_name, law_short_name, law_type, law_year_be)
    result,           \* the LawDocument built or loaded, returned when epc = "returned"
    calls,            \* number of calls started
    hist,             \* history of the running call
    prev,             \* history: the call that finished last
    \* ---- text functions of law_extractor.py and chunker.py, applied on their own ----
    fn_in,            \* the argument(s) of the function
    fn_out,           \* its return value, once fn_pc = "done"
    fn_pc,            \* "off", "input" or "done"
    \* ---- extract_law calls running side by side ----
    workers           \* worker -> the locals and position of its extract_law call

chunk_vars == <<doc, cpc, sec_i, chunks, chunk_index, pending, pending_chars,
                pending_chapter, covered>>

extract_vars == <<cache, md_files, epc, args, text, ocr_engine, law_meta, result,
                  calls, hist, prev>>

fn_vars == <<fn_in, fn_out, fn_pc>>

aux_vars == <<fn_vars, workers>>

vars == <<chunk_vars, extract_vars, aux_vars>>

\* Python's None, and a value that is not None (Optional[...] fields and parameters)
None == [none |-> TRUE]
Some(v) == [val |-> v]

(***************************************************************************)
(* Bounds and input alphabets                                              *)
(***************************************************************************)
MaxSections == 3

\* section keyword + numeral, by document position
LabelTok == <<"matra 1", "matra 2", "matra 3", "matra 4", "matra 5">>
NumTok   == <<"1", "2", "3", "4", "5">>

\* body blocks of a section text and the number of characters each stands for
BodyBlocks == {"body33", "body503", "body893"}

TokenChars(t) ==
    CASE t = "body33"  -> 33
      [] t = "body503" -> 503
      [] t = "body893" -> 893
      [] OTHER         -> 7       \* a section label, "matra 1": 7 characters

RECURSIVE StrLen(_)
StrLen(s) == IF s = <<>> THEN 0 ELSE TokenChars(Head(s)) + StrLen(Tail(s))

ParaCounts == {1, 2}
ParaTok == <<"wak-text-1", "wak-text-2", "wak-text-3">>

\* (part, chapter) in effect at a section
Hierarchies ==
    { [part |-> <<>>,         chapter |-> <<>>],
      [part |-> <<"phak 1">>, chapter |-> <<"muat 1">>],
      [part |-> <<"phak 1">>, chapter |-> <<"muat 2">>] }

HeaderHierarchies ==
    { [part |-> <<>>,         chapter |-> <<>>],
      [part |-> <<>>,         chapter |-> <<"muat 1">>],
      [part |-> <<"phak 1">>, chapter |-> <<>>],
      [part |-> <<"phak 1">>, chapter |-> <<"muat 1">>] }

ACT == <<"phraratchabanyat">>

SEC_KEYWORD    == "matra "
CLAUSE_KEYWORD == "kho "
PARA_KEYWORD   == "wak "

\* LawSection (law_extractor.py): pos stands for the object's place in doc.sections
MkSection(p, block, h, n) ==
    [ pos        |-> p,
      number     |-> <<NumTok[p]>>,
      label      |-> <<LabelTok[p]>>,
      text       |-> <<LabelTok[p], block>>,
      part       |-> h.part,
      chapter    |-> h.chapter,
      paragraphs |-> [i \in 1..n |-> <<ParaTok[i]>>] ]

SectionsAt(p, blocks, hs) ==
    { MkSection(p, b, h, n) : b \in blocks, h \in hs, n \in ParaCounts }

RECURSIVE SectionLists(_, _, _)
\* all lists of n sections, the section at position p drawn from SectionsAt(p, blocks, hs)
SectionLists(n, blocks, hs) ==
    IF n = 0 THEN { <<>> }
    ELSE { Append(l, s) : l \in SectionLists(n - 1, blocks, hs),
                          s \in SectionsAt(n, blocks, hs) }

\* LawDocument (law_extractor.py), the fields chunker_law.py reads
MkDoc(short, name, type, secs) ==
    [ law_short_name |-> short,
      law_name       |-> name,
      law_type       |-> type,
      sections       |-> secs ]

(***************************************************************************)
(* law_extractor.py: extract_law                                           *)
(*                                                                         *)
(* A text is a record: src names where it came from (the PDF's text layer  *)
(* or the Gemini response), chars is its number of characters (the texts   *)
(* have no leading or trailing whitespace, so len(text.strip()) is chars   *)
(* too), markers the number of Section-marker lines in it, and ops the     *)
(* preprocessing passes applied to it, in order.                           *)
(***************************************************************************)
MaxCalls == 2

OCR_MIN_CHARS_PER_PAGE == 50

NoFile == [none |-> TRUE]

FileIds == {"id1", "id2"}
Filenames == {"prb-chatsue.pdf", "rabiap-chatsue.pdf"}

\* Path(filename).stem
Stem(filename) ==
    CASE filename = "prb-chatsue.pdf" -> "prb-chatsue"
      [] filename = "rabiap-chatsue.pdf" -> "rabiap-chatsue"
      [] OTHER -> filename

\* hashlib.sha256(file_id.encode()).hexdigest()[:16]
Sha16(file_id) ==
    CASE file_id = "id1" -> "3a91f0c2d4e5b617"
      [] file_id = "id2" -> "c07d1e88a2b9f345"
      [] OTHER -> file_id

\* mutant of CachePath: one cache file for every document
AsCachePathShared(file_id) == <<"law_", "0000000000000000", ".json">>

CachePath(file_id) == <<"law_", Sha16(file_id), ".json">>
CachePaths == { CachePath(f) : f \in FileIds }

MdPath(filename) == <<Stem(filename), ".md">>
MdPaths == { MdPath(f) : f \in Filenames }

\* pdf_bytes, by what _extract_pymupdf makes of them
Pdfs ==
    { [name |-> "text-layer", raises |-> FALSE, chars |-> 100, pages |-> 2, markers |-> 2],
      [name |-> "thin-layer", raises |-> FALSE, chars |-> 99,  pages |-> 2, markers |-> 1],
      [name |-> "no-pages",   raises |-> FALSE, chars |-> 0,   pages |-> 0, markers |-> 0],
      [name |-> "damaged",    raises |-> TRUE,  chars |-> 0,   pages |-> 0, markers |-> 0] }

\* what one remote call does: raise, or answer with response.text None or a text
GeminiOutcomes == {"raise", "none", "text"}

EmptyText == [src |-> "gemini", chars |-> 0, markers |-> 0, ops |-> <<>>]

\* _extract_pymupdf, for a PDF it can open
ExtractPymupdf(pdf) ==
    [ text       |-> [src |-> pdf.name, chars |-> pdf.chars, markers |-> pdf.markers,
                      ops |-> <<>>],
      page_count |-> pdf.pages ]

\* mutant of IsTextGood: an average equal to the threshold counts as too low
AsIsTextGoodStrict(t, page_count) ==
    IF page_count = 0 THEN FALSE
    ELSE t.chars > OCR_MIN_CHARS_PER_PAGE * page_count

\* avg_chars = len(text.strip()) / page_count >= OCR_MIN_CHARS_PER_PAGE
IsTextGood(t, page_count) ==
    IF page_count = 0 THEN FALSE
    ELSE t.chars >= OCR_MIN_CHARS_PER_PAGE * page_count

\* _extract_gemini, for an outcome other than "raise": `response.text or ""`
ExtractGemini(outcome) ==
    IF outcome = "none" THEN EmptyText
    ELSE [src |-> "gemini", chars |-> 1200, markers |-> 3, ops |-> <<>>]

\* neither pass makes an empty text non-empty or a non-empty text empty: each
\* replaces a match by a non-empty string
StripPageHeaders(t) == [t EXCEPT !.ops = Append(@, "strip_page_headers")]
NormalizeSectionHeaders(t) == [t EXCEPT !.ops = Append(@, "normalize_section_headers")]

IsEmptyText(t) == t.chars = 0

\* _detect_law_meta(text, filename): each field is a function of the two arguments
DetectLawMeta(t, filename) ==
    [ law_name       |-> <<"law_name", t.src, filename>>,
      law_short_name |-> <<"law_short_name", t.src, filename>>,
      law_type       |-> <<"law_type", t.src, filename>>,
      law_year_be    |-> <<"law_year_be", t.src>> ]

\* _parse_sections(text): one LawSection per Section-marker line
ParseSections(t) ==
    [ i \in 1..t.markers |->
        [ number |-> NumTok[i], label |-> LabelTok[i], text |-> <<t.src, i>>,
          part |-> <<>>, chapter |-> <<>>, paragraphs |-> << <<t.src, i, 1>> >> ] ]

LawDocument(filename, file_id, meta, sections, full_text, engine, total) ==
    [ filename       |-> filename,
      file_id        |-> file_id,
      law_name       |-> meta.law_name,
      law_short_name |-> meta.law_short_name,
      law_type       |-> meta.law_type,
      law_year_be    |-> meta.law_year_be,
      sections       |-> sections,
      full_text      |-> full_text,
      ocr_engine     |-> engine,
      total_sections |-> total ]

\* mutant of CacheRecord: full_text is not written
AsCacheRecordNoFullText(d) ==
    [ filename       |-> d.filename,
      file_id        |-> d.file_id,
      law_name       |-> d.law_name,
      law_short_name |-> d.law_short_name,
      law_type       |-> d.law_type,
      law_year_be    |-> d.law_year_be,
      sections       |-> d.sections,
      ocr_engine     |-> d.ocr_engine,
      total_sections |-> d.total_sections ]

\* the dict extract_law hands to _save_cache
CacheRecord(d) ==
    [ filename       |-> d.filename,
      file_id        |-> d.file_id,
      law_name       |-> d.law_name,
      law_short_name |-> d.law_short_name,
      law_type       |-> d.law_type,
      law_year_be    |-> d.law_year_be,
      sections       |-> d.sections,
      full_text      |-> d.full_text,
      ocr_engine     |-> d.ocr_engine,
      total_sections |-> d.total_sections ]

\* mutant of DocFromCache: the filename of the record is not restored
AsDocFromCacheNoFilename(cached) ==
    [ filename       |-> "",
      file_id        |-> cached.file_id,
      law_name       |-> cached.law_name,
      law_short_name |-> cached.law_short_name,
      law_type       |-> cached.law_type,
      law_year_be    |-> cached.law_year_be,
      sections       |-> cached.sections,
      full_text      |-> IF "full_text" \in DOMAIN cached
                         THEN cached.full_text ELSE EmptyText,
      ocr_engine     |-> cached.ocr_engine,
      total_sections |-> cached.total_sections ]

\* the LawDocument extract_law builds from a cache hit
DocFromCache(cached) ==
    [ filename       |-> cached.filename,
      file_id        |-> cached.file_id,
      law_name       |-> cached.law_name,
      law_short_name |-> cached.law_short_name,
      law_type       |-> cached.law_type,
      law_year_be    |-> cached.law_year_be,
      sections       |-> cached.sections,
      full_text      |-> IF "full_text" \in DOMAIN cached
                         THEN cached.full_text ELSE EmptyText,
      ocr_engine     |-> cached.ocr_engine,
      total_sections |-> cached.total_sections ]

LoadCache(file_id) == cache[CachePath(file_id)]

\* _build_md_text(doc), without the date stamp
BuildMdText(d) == [md_of |-> d]

NoCall == [none |-> TRUE]
NoHist == [none |-> TRUE]

FreshHist ==
    [ cache_before  |-> cache,     \* the cache when the call started
      from_cache    |-> FALSE,     \* the call was served from the cache
      gemini_calls  |-> 0,         \* invocations of _extract_gemini
      gemini_raised |-> FALSE,     \* one of them raised
      fail_stage    |-> "" ]       \* the step whose exception ended the call

\* no text function is being applied and no side-by-side call is running
AuxIdle ==
    /\ fn_in = <<>>
    /\ fn_out = <<>>
    /\ fn_pc = "off"
    /\ workers = <<>>

ExtractStart ==
    /\ cache = [p \in CachePaths |-> NoFile]
    /\ md_files = [p \in MdPaths |-> NoFile]
    /\ epc = "idle"
    /\ args = NoCall
    /\ text = None
    /\ ocr_engine = None
    /\ law_meta = None
    /\ result = None
    /\ calls = 0
    /\ hist = NoHist
    /\ prev = NoCall

\* a caller invokes extract_law(pdf_bytes, file_id, filename, force)
Call ==
    /\ epc = "idle"
    /\ calls < MaxCalls
    /\ \E pdf \in Pdfs, fid \in FileIds, fn \in Filenames, force \in BOOLEAN :
          args' = [pdf |-> pdf, file_id |-> fid, filename |-> fn, force |-> force]
    /\ calls' = calls + 1
    /\ hist' = FreshHist
    /\ epc' = "cache"
    /\ UNCHANGED <<cache, md_files, text, ocr_engine, law_meta, result, prev>>
    /\ UNCHANGED <<chunk_vars, aux_vars>>

\* `if not force:` ... `if cached is not None:` return the cached document
CacheHit ==
    /\ epc = "cache"
    /\ ~args.force
    /\ LoadCache(args.file_id) # NoFile
    /\ result' = DocFromCache(LoadCache(args.file_id))
    /\ hist' = [hist EXCEPT !.from_cache = TRUE]
    /\ epc' = "returned"
    /\ UNCHANGED <<cache, md_files, args, text, ocr_engine, law_meta, calls, prev>>
    /\ UNCHANGED <<chunk_vars, aux_vars>>

CacheMiss ==
    /\ epc = "cache"
    /\ args.force \/ LoadCache(args.file_id) = NoFile
    /\ ocr_engine' = "pymupdf"
    /\ epc' = "pymupdf"
    /\ UNCHANGED <<cache, md_files, args, text, law_meta, result, calls, hist, prev>>
    /\ UNCHANGED <<chunk_vars, aux_vars>>

\* _extract_pymupdf returns and _is_text_good: keep the native text
PymupdfGood ==
    /\ epc = "pymupdf"
    /\ ~args.pdf.raises
    /\ LET got == ExtractPymupdf(args.pdf)
       IN  /\ IsTextGood(got.text, got.page_count)
           /\ text' = got.text
    /\ epc' = "meta"
    /\ UNCHANGED <<cache, md_files, args, ocr_engine, law_meta, result, calls, hist, prev>>
    /\ UNCHANGED <<chunk_vars, aux_vars>>

\* _extract_pymupdf returns, not _is_text_good: _extract_gemini inside the try block
PymupdfSparse ==
    /\ epc = "pymupdf"
    /\ ~args.pdf.raises
    /\ LET got == ExtractPymupdf(args.pdf)
       IN  /\ ~IsTextGood(got.text, got.page_count)
           /\ text' = got.text
    /\ epc' = "gemini_in_try"
    /\ UNCHANGED <<cache, md_files, args, ocr_engine, law_meta, result, calls, hist, prev>>
    /\ UNCHANGED <<chunk_vars, aux_vars>>

\* _extract_pymupdf raises: `except Exception` calls _extract_gemini
PymupdfRaises ==
    /\ epc = "pymupdf"
    /\ args.pdf.raises
    /\ epc' = "gemini_in_except"
    /\ UNCHANGED <<cache, md_files, args, text, ocr_engine, law_meta, result, calls,
                   hist, prev>>
    /\ UNCHANGED <<chunk_vars, aux_vars>>

\* line 562 returns
GeminiInTryReturns ==
    /\ epc = "gemini_in_try"
    /\ \E outcome \in GeminiOutcomes \ {"raise"} : text' = ExtractGemini(outcome)
    /\ ocr_engine' = "gemini"
    /\ hist' = [hist EXCEPT !.gemini_calls = @ + 1]
    /\ epc' = "meta"
    /\ UNCHANGED <<cache, md_files, args, law_meta, result, calls, prev>>
    /\ UNCHANGED <<chunk_vars, aux_vars>>

\* line 562 raises inside the try block: `except Exception` catches it
GeminiInTryRaises ==
    /\ epc = "gemini_in_try"
    /\ hist' = [hist EXCEPT !.gemini_calls = @ + 1, !.gemini_raised = TRUE]
    /\ epc' = "gemini_in_except"
    /\ UNCHANGED <<cache, md_files, args, text, ocr_engine, law_meta, result, calls, prev>>
    /\ UNCHANGED <<chunk_vars, aux_vars>>

\* line 568 returns
GeminiInExceptReturns ==
    /\ epc = "gemini_in_except"
    /\ \E outcome \in GeminiOutcomes \ {"raise"} : text' = ExtractGemini(outcome)
    /\ ocr_engine' = "gemini"
    /\ hist' = [hist EXCEPT !.gemini_calls = @ + 1]
    /\ epc' = "meta"
    /\ UNCHANGED <<cache, md_files, args, law_meta, result, calls, prev>>
    /\ UNCHANGED <<chunk_vars, aux_vars>>

\* line 568 raises: nothing catches it
GeminiInExceptRaises ==
    /\ epc = "gemini_in_except"
    /\ hist' = [hist EXCEPT !.gemini_calls = @ + 1, !.gemini_raised = TRUE,
                            !.fail_stage = "extract"]
    /\ epc' = "raised"
    /\ UNCHANGED <<cache, md_files, args, text, ocr_engine, law_meta, result, calls, prev>>
    /\ UNCHANGED <<chunk_vars, aux_vars>>

\* mutant of DetectMeta: a record is cached as soon as the text is known
AsDetectMetaSavesEarly ==
    /\ epc = "meta"
    /\ law_meta' = DetectLawMeta(text, args.filename)
    /\ cache' = [cache EXCEPT ![CachePath(args.file_id)] =
                   CacheRecord(LawDocument(args.filename, args.file_id,
                       DetectLawMeta(text, args.filename), <<>>, text, ocr_engine, 0))]
    /\ epc' = "preprocess"
    /\ UNCHANGED <<md_files, args, text, ocr_engine, result, calls, hist, prev>>
    /\ UNCHANGED <<chunk_vars, aux_vars>>

DetectMeta ==
    /\ epc = "meta"
    /\ law_meta' = DetectLawMeta(text, args.filename)
    /\ epc' = "preprocess"
    /\ UNCHANGED <<cache, md_files, args, text, ocr_engine, result, calls, hist, prev>>
    /\ UNCHANGED <<chunk_vars, aux_vars>>

\* an exception inside _detect_law_meta leaves extract_law
DetectMetaRaises ==
    /\ epc = "meta"
    /\ hist' = [hist EXCEPT !.fail_stage = "meta"]
    /\ epc' = "raised"
    /\ UNCHANGED <<cache, md_files, args, text, ocr_engine, law_meta, result, calls, prev>>
    /\ UNCHANGED <<chunk_vars, aux_vars>>

\* _strip_page_headers, then _normalize_section_headers
Preprocess ==
    /\ epc = "preprocess"
    /\ text' = NormalizeSectionHeaders(StripPageHeaders(text))
    /\ epc' = "parse"
    /\ UNCHANGED <<cache, md_files, args, ocr_engine, law_meta, result, calls, hist, prev>>
    /\ UNCHANGED <<chunk_vars, aux_vars>>

\* _parse_sections and the LawDocument constructor
ParseAndAssemble ==
    /\ epc = "parse"
    /\ LET sections == ParseSections(text)
       IN  result' = LawDocument(args.filename, args.file_id, law_meta, sections, text,
                                 ocr_engine, Len(sections))
    /\ epc' = "save_cache"
    /\ UNCHANGED <<cache, md_files, args, text, ocr_engine, law_meta, calls, hist, prev>>
    /\ UNCHANGED <<chunk_vars, aux_vars>>

\* an exception inside _parse_sections leaves extract_law
ParseRaises ==
    /\ epc = "parse"
    /\ hist' = [hist EXCEPT !.fail_stage = "parse"]
    /\ epc' = "raised"
    /\ UNCHANGED <<cache, md_files, args, text, ocr_engine, law_meta, result, calls, prev>>
    /\ UNCHANGED <<chunk_vars, aux_vars>>

SaveCache ==
    /\ epc = "save_cache"
    /\ cache' = [cache EXCEPT ![CachePath(args.file_id)] = CacheRecord(result)]
    /\ epc' = "save_md"
    /\ UNCHANGED <<md_files, args, text, ocr_engine, law_meta, result, calls, hist, prev>>
    /\ UNCHANGED <<chunk_vars, aux_vars>>

\* _save_md_backup(doc) and `return doc`
SaveMdBackup ==
    /\ epc = "save_md"
    /\ md_files' = [md_files EXCEPT ![MdPath(result.filename)] = BuildMdText(result)]
    /\ epc' = "returned"
    /\ UNCHANGED <<cache, args, text, ocr_engine, law_meta, result, calls, hist, prev>>
    /\ UNCHANGED <<chunk_vars, aux_vars>>

\* the call is over: the caller has the Document or the exception
Finish ==
    /\ epc \in {"returned", "raised"}
    /\ prev' = [ args   |-> args,
                 status |-> epc,
                 result |-> IF epc = "returned" THEN result ELSE None ]
    /\ epc' = "idle"
    /\ args' = NoCall
    /\ text' = None
    /\ ocr_engine' = None
    /\ law_meta' = None
    /\ result' = None
    /\ hist' = NoHist
    /\ UNCHANGED <<cache, md_files, calls>>
    /\ UNCHANGED <<chunk_vars, aux_vars>>

(***************************************************************************)
(* chunker_law.py                                                          *)
(***************************************************************************)
SECTION_SPLIT_CHARS == 400
LAW_CHUNK_MAX_CHARS == 800

\* the parameters max_chars / split_chars of chunk_law_document (defaults)
max_chars   == LAW_CHUNK_MAX_CHARS
split_chars == SECTION_SPLIT_CHARS

BaseMeta(d, sec, ci) ==
    [ law_name       |-> d.law_name,
      law_short_name |-> d.law_short_name,
      law_type       |-> d.law_type,
      part           |-> sec.part,
      chapter        |-> sec.chapter,
      chunk_index    |-> ci ]

RECURSIVE JoinParts(_)
\* " | ".join(parts)
JoinParts(parts) ==
    IF parts = <<>> THEN <<>>
    ELSE IF Len(parts) = 1 THEN parts[1]
    ELSE parts[1] \o <<" | ">> \o JoinParts(Tail(parts))

\* mutant of ContextHeader: a document without any law name gets no header
AsContextHeaderNamelessBare(d, sec, paragraph) ==
    IF d.law_short_name = <<>> /\ d.law_name = <<>>
    THEN <<>>
    ELSE <<"[">> \o (IF d.law_short_name # <<>> THEN d.law_short_name ELSE d.law_name)
         \o <<" | ", IF d.law_type = ACT THEN SEC_KEYWORD ELSE CLAUSE_KEYWORD>>
         \o sec.number \o <<"]">>

ContextHeader(d, sec, paragraph) ==
    LET p0 == << IF d.law_short_name # <<>> THEN d.law_short_name ELSE d.law_name >>
        p1 == IF sec.part # <<>> THEN Append(p0, sec.part) ELSE p0
        p2 == IF sec.chapter # <<>> THEN Append(p1, sec.chapter) ELSE p1
        p3 == Append(p2, IF d.law_type = ACT
                         THEN <<SEC_KEYWORD>> \o sec.number
                         ELSE <<CLAUSE_KEYWORD>> \o sec.number)
        p4 == IF paragraph # None
              THEN Append(p3, <<PARA_KEYWORD, NumTok[paragraph.val]>>) ELSE p3
    IN  <<"[">> \o JoinParts(p4) \o <<"]">>

ParagraphChunk(d, sec, i, ci) ==
    [ text     |-> ContextHeader(d, sec, Some(i)) \o <<"\n\n">> \o sec.label \o <<"\n">>
                   \o sec.paragraphs[i],
      metadata |-> [ section          |-> Some(sec.number),
                     paragraph        |-> Some(i),
                     total_paragraphs |-> Some(Len(sec.paragraphs)),
                     section_numbers  |-> <<sec.number>>,
                     first_section    |-> sec.number,
                     last_section     |-> sec.number ] @@ BaseMeta(d, sec, ci) ]

\* the chunks _emit_paragraph_chunks appends, in order
EmitParagraphChunks(d, sec, ci) ==
    [ i \in 1..Len(sec.paragraphs) |-> ParagraphChunk(d, sec, i, ci + i - 1) ]

RECURSIVE JoinTexts(_)
\* "\n\n".join(s.text for s in secs)
JoinTexts(secs) ==
    IF secs = <<>> THEN <<>>
    ELSE IF Len(secs) = 1 THEN secs[1].text
    ELSE secs[1].text \o <<"\n\n">> \o JoinTexts(Tail(secs))

GroupedChunk(d, secs, ci) ==
    LET sec0 == secs[1]
        section_numbers == [ k \in 1..Len(secs) |-> secs[k].number ]
    IN  [ text     |-> ContextHeader(d, sec0, None) \o <<"\n\n">> \o JoinTexts(secs),
          metadata |-> [ section          |-> IF Len(section_numbers) = 1
                                              THEN Some(section_numbers[1]) ELSE None,
                         paragraph        |-> None,
                         total_paragraphs |-> None,
                         section_numbers  |-> section_numbers,
                         first_section    |-> section_numbers[1],
                         last_section     |-> section_numbers[Len(section_numbers)] ]
                       @@ BaseMeta(d, sec0, ci) ]

\* the chunks _emit_grouped_chunks appends (none for an empty group)
EmitGroupedChunks(d, secs, ci) ==
    IF secs = <<>> THEN <<>> ELSE << GroupedChunk(d, secs, ci) >>

IsLong(sec) == StrLen(sec.text) > split_chars /\ Len(sec.paragraphs) > 1

\* mutant of ChapterChanged: truthiness test, an empty pending chapter counts as None
AsChapterChangedTruthy(pc, sec) ==
    pc # None /\ pc # Some(<<>>) /\ Some(sec.chapter) # pc

ChapterChanged(pc, sec) == pc # None /\ Some(sec.chapter) # pc

\* mutant of WouldExceed: the characters already pending are not counted
AsWouldExceedAlone(pchars, pend, sec) ==
    (StrLen(sec.text) > max_chars) /\ pend # <<>>

WouldExceed(pchars, pend, sec) ==
    (pchars + StrLen(sec.text) > max_chars) /\ pend # <<>>

Positions(secs) == [ k \in 1..Len(secs) |-> secs[k].pos ]

\* what flush_pending leaves in chunks / covered
FlushedChunks == chunks \o EmitGroupedChunks(doc, pending, chunk_index)
FlushedCovered == IF pending = <<>> THEN covered ELSE Append(covered, Positions(pending))
\* mutant of FlushedIndex: the index _emit_grouped_chunks returns is dropped
AsFlushedIndexStale == chunk_index

FlushedIndex == chunk_index + Len(EmitGroupedChunks(doc, pending, chunk_index))

\* `if not doc.sections: return []`
EmptyDocument ==
    /\ cpc = "start"
    /\ doc.sections = <<>>
    /\ cpc' = "done"
    /\ UNCHANGED <<doc, sec_i, chunks, chunk_index, pending, pending_chars,
                   pending_chapter, covered>>
    /\ UNCHANGED <<extract_vars, aux_vars>>

EnterLoop ==
    /\ cpc = "start"
    /\ doc.sections # <<>>
    /\ cpc' = "loop"
    /\ UNCHANGED <<doc, sec_i, chunks, chunk_index, pending, pending_chars,
                   pending_chapter, covered>>
    /\ UNCHANGED <<extract_vars, aux_vars>>

\* mutant of LongSection: the pending group is not flushed before the paragraph chunks
AsLongSectionNoFlush ==
    /\ cpc = "loop"
    /\ sec_i <= Len(doc.sections)
    /\ LET sec == doc.sections[sec_i]
           emitted == EmitParagraphChunks(doc, sec, chunk_index)
       IN  /\ IsLong(sec)
           /\ chunks' = chunks \o emitted
           /\ covered' = covered \o [ i \in 1..Len(emitted) |-> <<sec.pos>> ]
           /\ chunk_index' = chunk_index + Len(emitted)
    /\ sec_i' = sec_i + 1
    /\ UNCHANGED <<doc, cpc, pending, pending_chars, pending_chapter>>
    /\ UNCHANGED <<extract_vars, aux_vars>>

\* loop body, `if is_long:` branch
LongSection ==
    /\ cpc = "loop"
    /\ sec_i <= Len(doc.sections)
    /\ LET sec == doc.sections[sec_i]
           emitted == EmitParagraphChunks(doc, sec, FlushedIndex)
       IN  /\ IsLong(sec)
           /\ chunks' = FlushedChunks \o emitted
           /\ covered' = FlushedCovered \o [ i \in 1..Len(emitted) |-> <<sec.pos>> ]
           /\ chunk_index' = FlushedIndex + Len(emitted)
           /\ pending' = <<>>
           /\ pending_chars' = 0
           /\ pending_chapter' = None
    /\ sec_i' = sec_i + 1
    /\ UNCHANGED <<doc, cpc>>
    /\ UNCHANGED <<extract_vars, aux_vars>>

\* loop body, `else:` branch
ShortSection ==
    /\ cpc = "loop"
    /\ sec_i <= Len(doc.sections)
    /\ LET sec == doc.sections[sec_i]
           flush == ChapterChanged(pending_chapter, sec)
                    \/ WouldExceed(pending_chars, pending, sec)
       IN  /\ ~IsLong(sec)
           /\ chunks' = IF flush THEN FlushedChunks ELSE chunks
           /\ covered' = IF flush THEN FlushedCovered ELSE covered
           /\ chunk_index' = IF flush THEN FlushedIndex ELSE chunk_index
           /\ pending' = Append(IF flush THEN <<>> ELSE pending, sec)
           /\ pending_chars' = (IF flush THEN 0 ELSE pending_chars) + StrLen(sec.text)
           /\ pending_chapter' = Some(sec.chapter)
    /\ sec_i' = sec_i + 1
    /\ UNCHANGED <<doc, cpc>>
    /\ UNCHANGED <<extract_vars, aux_vars>>

\* mutant of FinalFlush: the function returns without the flush after the loop
AsFinalNoFlush ==
    /\ cpc = "loop"
    /\ sec_i > Len(doc.sections)
    /\ cpc' = "done"
    /\ UNCHANGED <<doc, sec_i, chunks, chunk_index, pending, pending_chars,
                   pending_chapter, covered>>
    /\ UNCHANGED <<extract_vars, aux_vars>>

\* the flush_pending() after the loop, and `return chunks`
FinalFlush ==
    /\ cpc = "loop"
    /\ sec_i > Len(doc.sections)
    /\ chunks' = FlushedChunks
    /\ covered' = FlushedCovered
    /\ chunk_index' = FlushedIndex
    /\ pending' = <<>>
    /\ pending_chars' = 0
    /\ pending_chapter' = None
    /\ cpc' = "done"
    /\ UNCHANGED <<doc, sec_i>>
    /\ UNCHANGED <<extract_vars, aux_vars>>

ChunkStart(d) ==
    /\ doc = d
    /\ cpc = "start"
    /\ sec_i = 1
    /\ chunks = <<>>
    /\ chunk_index = 0
    /\ pending = <<>>
    /\ pending_chars = 0
    /\ pending_chapter = None
    /\ covered = <<>>
    /\ ExtractStart
    /\ AuxIdle

DefaultShort == <<"pho.ro.bo.">>
DefaultName  == <<"phraratchabanyat", "kan-chatsue-chatchang">>

Init ==
    \E n \in 0..MaxSections : \E secs \in SectionLists(n, BodyBlocks, Hierarchies) :
        ChunkStart(MkDoc(DefaultShort, DefaultName, ACT, secs))

Next == EmptyDocument \/ EnterLoop \/ LongSection \/ ShortSection \/ FinalFlush

Spec == Init /\ [][Next]_vars

\* the same operation on documents whose names, part and chapter may be empty
MaxHeaderSections == 2
HeaderBlocks == {"body33", "body503"}
REGULATION == <<"rabiap">>

InitHeader ==
    \E n \in 0..MaxHeaderSections :
    \E secs \in SectionLists(n, HeaderBlocks, HeaderHierarchies) :
    \E short \in {<<>>, DefaultShort}, name \in {<<>>, DefaultName},
       type \in {ACT, REGULATION} :
        ChunkStart(MkDoc(short, name, type, secs))

SpecHeader == InitHeader /\ [][Next]_vars

(***************************************************************************)
(* extract_law, called again and again by a batch driver                   *)
(***************************************************************************)
InitExtract ==
    /\ ExtractStart
    /\ AuxIdle
    /\ doc = MkDoc(<<>>, <<>>, ACT, <<>>)
    /\ cpc = "done"
    /\ sec_i = 1
    /\ chunks = <<>>
    /\ chunk_index = 0
    /\ pending = <<>>
    /\ pending_chars = 0
    /\ pending_chapter = None
    /\ covered = <<>>

NextExtract ==
    \/ Call \/ CacheHit \/ CacheMiss
    \/ PymupdfGood \/ PymupdfSparse \/ PymupdfRaises
    \/ GeminiInTryReturns \/ GeminiInTryRaises
    \/ GeminiInExceptReturns \/ GeminiInExceptRaises
    \/ DetectMeta \/ DetectMetaRaises
    \/ Preprocess \/ ParseAndAssemble \/ ParseRaises
    \/ SaveCache \/ SaveMdBackup \/ Finish

SpecExtract == InitExtract /\ [][NextExtract]_vars

(***************************************************************************)
(* Properties of chunk_law_document                                        *)
(***************************************************************************)
IsGrouped(c) == c.metadata.paragraph = None

RECURSIVE SumLen(_)
SumLen(ps) == IF ps = <<>> THEN 0
              ELSE StrLen(doc.sections[Head(ps)].text) + SumLen(Tail(ps))

\* C1: the chunks carry chunk_index 0, 1, ..., len(chunks)-1 in list order,
\* whatever mix of grouped and paragraph chunks is emitted.
C1_ChunkIndexContiguous ==
    \A i \in 1..Len(chunks) : chunks[i].metadata.chunk_index = i - 1

C1_Witness ==
    /\ cpc = "done"
    /\ Len(chunks) >= 4
    /\ \E i, j \in 1..Len(chunks) :
          i < j /\ ~IsGrouped(chunks[i]) /\ IsGrouped(chunks[j])
    /\ \E i, j \in 1..Len(chunks) :
          i < j /\ IsGrouped(chunks[i]) /\ ~IsGrouped(chunks[j])

\* C2: all sections that one grouped chunk is built from carry the same chapter
\* (so they never span two distinct non-empty chapter values).
C2_GroupedChapterPure ==
    \A i \in 1..Len(chunks) :
        IsGrouped(chunks[i]) =>
            \A k \in 1..Len(covered[i]) :
                doc.sections[covered[i][k]].chapter = doc.sections[covered[i][1]].chapter

C2_Witness ==
    /\ cpc = "done"
    /\ \E i \in 1..Len(chunks) : IsGrouped(chunks[i]) /\ Len(covered[i]) >= 2
    /\ \E p \in 1..(Len(doc.sections) - 1) :
          /\ ~IsLong(doc.sections[p]) /\ ~IsLong(doc.sections[p + 1])
          /\ doc.sections[p].chapter = <<>>
          /\ doc.sections[p + 1].chapter # <<>>

\* C3: the summed text length of the sections of a grouped chunk is at most
\* max_chars, unless the chunk covers exactly one section.
C3_GroupedSizeBound ==
    \A i \in 1..Len(chunks) :
        IsGrouped(chunks[i]) =>
            \/ Len(covered[i]) = 1
            \/ SumLen(covered[i]) <= max_chars

C3_Witness ==
    /\ cpc = "done"
    /\ \E i \in 1..Len(chunks) :
          IsGrouped(chunks[i]) /\ Len(covered[i]) = 1 /\ SumLen(covered[i]) > max_chars
    /\ \E i \in 1..Len(chunks) :
          IsGrouped(chunks[i]) /\ Len(covered[i]) >= 2

IsPrefix(a, b) == Len(a) <= Len(b) /\ SubSeq(b, 1, Len(a)) = a

\* "[" ... "]" followed by the blank line that separates header and body
BeginsBracketed(txt) ==
    /\ txt # <<>>
    /\ txt[1] = "["
    /\ \E k \in 2..(Len(txt) - 1) :
          /\ txt[k] = "]"
          /\ txt[k + 1] = "\n\n"
          /\ \A j \in 2..(k - 1) : txt[j] \notin {"[", "]", "\n\n"}

\* C4: every chunk has a non-empty text that begins with the bracketed context
\* header of the section it starts with, for any (also empty) law_short_name,
\* law_name, part and chapter.
C4_TextBeginsWithHeader ==
    \A i \in 1..Len(chunks) :
        /\ chunks[i].text # <<>>
        /\ BeginsBracketed(chunks[i].text)
        /\ IsPrefix(ContextHeader(doc, doc.sections[covered[i][1]],
                                  chunks[i].metadata.paragraph), chunks[i].text)

C4_Witness ==
    /\ cpc = "done"
    /\ doc.law_short_name = <<>> /\ doc.law_name = <<>>
    /\ \E i, j \in 1..Len(chunks) :
          /\ IsGrouped(chunks[i]) /\ ~IsGrouped(chunks[j])
          /\ doc.sections[covered[i][1]].part = <<>>
          /\ doc.sections[covered[i][1]].chapter = <<>>

\* indices of the chunks built from the section at position p
ChunksOf(p) == { i \in 1..Len(chunks) : \E k \in 1..Len(covered[i]) : covered[i][k] = p }

\* C5: a section longer than split_threshold with more than one paragraph gives
\* exactly one chunk per paragraph, consecutive, with paragraph = 1..n and
\* total_paragraphs = n, and every section before it has been emitted before
\* the first of these chunks.
C5_LongSectionParagraphChunks ==
    \A p \in 1..(sec_i - 1) :
        LET sec == doc.sections[p]
            n == Len(sec.paragraphs)
        IN  IsLong(sec) =>
              /\ Cardinality(ChunksOf(p)) = n
              /\ \E first \in 1..Len(chunks) :
                    /\ ChunksOf(p) = first..(first + n - 1)
                    /\ \A k \in 1..n :
                          /\ chunks[first + k - 1].metadata.paragraph = Some(k)
                          /\ chunks[first + k - 1].metadata.total_paragraphs = Some(n)
                          /\ chunks[first + k - 1].metadata.section = Some(sec.number)
                    /\ \A q \in 1..(p - 1) :
                          /\ ChunksOf(q) # {}
                          /\ \A i \in ChunksOf(q) :
                                /\ i < first
                                /\ ~IsLong(doc.sections[q]) => IsGrouped(chunks[i])

C5_Witness ==
    /\ cpc = "done"
    /\ Len(doc.sections) >= 3
    /\ ~IsLong(doc.sections[1]) /\ ~IsLong(doc.sections[2]) /\ IsLong(doc.sections[3])
    /\ covered[1] = <<1, 2>>


(***************************************************************************)
(* Properties of extract_law                                               *)
(***************************************************************************)
\* C6: extract_law called twice in a row with identical arguments and
\* force=False returns equal Documents (equal serializations), and the second
\* call invokes no remote OCR.
C6_CacheIdempotent ==
    ( /\ epc = "returned"
      /\ prev # NoCall
      /\ prev.status = "returned"
      /\ prev.args = args
      /\ ~args.force )
    => /\ result = prev.result
       /\ CacheRecord(result) = CacheRecord(prev.result)
       /\ hist.gemini_calls = 0

\* the first of the two calls went through the remote path and wrote the cache
C6_Witness ==
    /\ epc = "returned"
    /\ prev # NoCall
    /\ prev.status = "returned"
    /\ prev.args = args
    /\ ~args.force
    /\ result.ocr_engine = "gemini"
    /\ hist.from_cache

AvgBelowThreshold(pdf) ==
    pdf.pages = 0 \/ pdf.chars < OCR_MIN_CHARS_PER_PAGE * pdf.pages

\* where a text came from, read off the text itself
ProducedBy(t) == IF t.src = "gemini" THEN "gemini" ELSE "pymupdf"

\* C7: in a call not served from the cache the remote OCR path is used exactly
\* when native extraction raised or the average characters per page is below
\* the threshold (zero pages count as below), and the returned Document's
\* engine names the path that produced full_text.
C7_FallbackExactlyWhenNeeded ==
    /\ ( epc \in {"meta", "preprocess", "parse", "save_cache", "save_md", "raised"}
         \/ (epc = "returned" /\ ~hist.from_cache) )
       => ( (hist.gemini_calls > 0)
            <=> (args.pdf.raises \/ AvgBelowThreshold(args.pdf)) )
    /\ (epc = "returned" /\ ~hist.from_cache)
       => /\ result.ocr_engine = ProducedBy(result.full_text)
          /\ (result.ocr_engine = "gemini") <=> (hist.gemini_calls > 0)

\* a text layer whose average is exactly the threshold is kept
C7_Witness ==
    /\ epc = "returned"
    /\ ~hist.from_cache
    /\ args.pdf.chars = OCR_MIN_CHARS_PER_PAGE * args.pdf.pages
    /\ args.pdf.pages > 0
    /\ result.ocr_engine = "pymupdf"
    /\ prev # NoCall
    /\ prev.status = "returned"
    /\ prev.result.ocr_engine = "gemini"
    /\ prev.args.pdf.pages = 0

\* C8: if a remote OCR call raises during extract_law, the call fails and
\* returns no Document.
C8_RemoteFailurePropagates ==
    (hist # NoHist /\ hist.gemini_raised) => epc # "returned"

\* C9: a call that fails because text extraction, metadata detection or
\* section parsing raised leaves the cache as it was before the call; the
\* cache is not written before the Document is assembled.
C9_NoCacheWriteOnFailure ==
    /\ (epc = "raised" /\ hist.fail_stage \in {"extract", "meta", "parse"})
       => cache = hist.cache_before
    /\ epc \in {"cache", "pymupdf", "gemini_in_try", "gemini_in_except", "meta",
                 "preprocess", "parse"}
       => cache = hist.cache_before

\* a forced re-extraction fails in the parser while an older record exists
C9_Witness ==
    /\ epc = "raised"
    /\ hist.fail_stage = "parse"
    /\ args.force
    /\ cache[CachePath(args.file_id)] # NoFile

\* C10: every Document that extract_law returns has a non-empty full_text.
C10_ReturnedTextNonEmpty ==
    epc = "returned" => ~IsEmptyText(result.full_text)

(***************************************************************************)
(* Text functions of law_extractor.py, on concrete texts.                  *)
(*                                                                         *)
(* A text is the list of its lines (str.splitlines()); a line is a         *)
(* sequence of tokens: keywords, words, numerals and the whitespace        *)
(* characters " " and "\t".  A Thai numeral is written th5, the list       *)
(* markers "(1)" and "(ko)" stand for a bracketed numeral or letter.       *)
(***************************************************************************)
IsSpace(t) == t \in {" ", "\t"}

ArabicDigits == {"1", "2", "3"}
ThaiDigits   == {"th5"}
Digits       == ArabicDigits \cup ThaiDigits

\* str.translate(_THAI_TO_ARABIC) on one numeral
ToArabic(t) == IF t = "th5" THEN "5" ELSE t

IsBlank(l) == \A i \in 1..Len(l) : IsSpace(l[i])

RECURSIVE LStrip(_)
LStrip(l) == IF l # <<>> /\ IsSpace(Head(l)) THEN LStrip(Tail(l)) ELSE l

RECURSIVE RStrip(_)
RStrip(l) ==
    IF l # <<>> /\ IsSpace(l[Len(l)]) THEN RStrip(SubSeq(l, 1, Len(l) - 1)) ELSE l

\* line.strip()
StripLine(l) == RStrip(LStrip(l))

\* "\n".join(lines).strip().splitlines(): the blank lines at both ends go, and so
\* does the whitespace before the first and after the last remaining character
StripText(ls) ==
    LET solid == {i \in 1..Len(ls) : ~IsBlank(ls[i])}
    IN  IF solid = {} THEN <<>>
        ELSE LET a == CHOOSE i \in solid : \A j \in solid : i <= j
                 b == CHOOSE i \in solid : \A j \in solid : j <= i
             IN  [i \in 1..(b - a + 1) |->
                    LET l  == ls[a + i - 1]
                        l1 == IF i = 1 THEN LStrip(l) ELSE l
                    IN  IF i = b - a + 1 THEN RStrip(l1) ELSE l1]

\* the position of the first token at or after i that is not whitespace (\s*)
RECURSIVE SkipSpace(_, _)
SkipSpace(s, i) == IF i <= Len(s) /\ IsSpace(s[i]) THEN SkipSpace(s, i + 1) ELSE i

\* _PART_RE / _CHAPTER_RE .match(s):  kw(?:\s*thi)?\s*[digit]+(?:\s+[^\n]+)?
HeadingMatch(s, kw) ==
    /\ Len(s) >= 1
    /\ s[1] = kw
    /\ LET j == SkipSpace(s, 2)
           k == IF j <= Len(s) /\ s[j] = "thi" THEN SkipSpace(s, j + 1) ELSE j
       IN  k <= Len(s) /\ s[k] \in Digits

PartMatch(s)    == HeadingMatch(s, "phak")
ChapterMatch(s) == HeadingMatch(s, "muat")

\* _SECTION_START_RE.match(s):  (?:matra|kho)\s+[digit]+
SectionStartMatch(s) ==
    /\ Len(s) >= 3
    /\ s[1] \in {"matra", "kho"}
    /\ IsSpace(s[2])
    /\ LET k == SkipSpace(s, 2) IN k <= Len(s) /\ s[k] \in Digits

\* _LIST_ITEM_RE.match(s):  \([letter or digit]+\)
LIST_MARKERS == {"(1)", "(2)", "(ko)"}
ListItemMatch(s) == Len(s) >= 1 /\ s[1] \in LIST_MARKERS

\* _DEFINITE_SUBJECT_RE.match(s): the line starts with one of the listed nouns
DEFINITE_SUBJECTS ==
    {"ratthamontri", "khanakammakan", "khanaratthamontri", "prathan",
     "phuwaratchakan", "athibodi", "nayok", "palat", "huana",
     "phuamnuaikan", "krommakan", "phubanchakan"}
DefiniteSubjectMatch(s) == Len(s) >= 1 /\ s[1] \in DEFINITE_SUBJECTS

\* mutant of ListParaLoop: no new-subject test, every line stays in the list part
RECURSIVE AsListParaLoopNoTail(_, _, _, _, _)
AsListParaLoopNoTail(para_lines, i, list_lines, tail_lines, after_list) ==
    IF i > Len(para_lines)
    THEN [list_lines |-> list_lines, tail_lines |-> tail_lines]
    ELSE IF StripLine(para_lines[i]) = <<>>
    THEN AsListParaLoopNoTail(para_lines, i + 1, list_lines, tail_lines, after_list)
    ELSE AsListParaLoopNoTail(para_lines, i + 1, Append(list_lines, para_lines[i]),
                              tail_lines, after_list)

\* the loop of _split_list_para over para.splitlines()
RECURSIVE ListParaLoop(_, _, _, _, _)
ListParaLoop(para_lines, i, list_lines, tail_lines, after_list) ==
    IF i > Len(para_lines)
    THEN [list_lines |-> list_lines, tail_lines |-> tail_lines]
    ELSE LET pline    == para_lines[i]
             stripped == StripLine(pline)
         IN  IF stripped = <<>>
             THEN ListParaLoop(para_lines, i + 1, list_lines, tail_lines, after_list)
             ELSE IF after_list
             THEN ListParaLoop(para_lines, i + 1, list_lines,
                               Append(tail_lines, pline), after_list)
             ELSE IF ListItemMatch(stripped)
             THEN ListParaLoop(para_lines, i + 1, Append(list_lines, pline),
                               tail_lines, after_list)
             ELSE IF DefiniteSubjectMatch(stripped)
             THEN ListParaLoop(para_lines, i + 1, list_lines,
                               Append(tail_lines, pline), TRUE)
             ELSE ListParaLoop(para_lines, i + 1, Append(list_lines, pline),
                               tail_lines, after_list)

\* _split_list_para(para, prev_varak) -> (list_part, tail_varak)
split_list_para(para, prev_varak) ==
    LET r == ListParaLoop(para, 1, <<>>, <<>>, FALSE)
    IN  [ list_part  |-> IF r.list_lines # <<>> THEN prev_varak \o r.list_lines
                         ELSE prev_varak,
          tail_varak |-> IF r.tail_lines # <<>> THEN Some(StripText(r.tail_lines))
                         ELSE None ]

\* re.split(r"\n(?:[ \t]*\n)+", content): a line of spaces and tabs that has a line
\* before it and a line after it separates two candidates
RECURSIVE RawParas(_, _, _)
RawParas(content, i, cur) ==
    IF i > Len(content) THEN <<cur>>
    ELSE IF IsBlank(content[i]) /\ 1 < i /\ i < Len(content)
    THEN <<cur>> \o RawParas(content, i + 1, <<>>)
    ELSE RawParas(content, i + 1, Append(cur, content[i]))

\* mutant of MergesIntoPrevious: no candidate is ever merged
AsMergesNever(paragraphs, para) == FALSE

\* a candidate that starts with a list marker is merged into paragraphs[-1]
MergesIntoPrevious(paragraphs, para) == paragraphs # <<>> /\ ListItemMatch(para[1])

\* the loop of _split_paragraphs over raw_paras
RECURSIVE ParagraphLoop(_, _, _)
ParagraphLoop(raw_paras, i, paragraphs) ==
    IF i > Len(raw_paras) THEN paragraphs
    ELSE LET para == StripText(raw_paras[i])
         IN  IF para = <<>> THEN ParagraphLoop(raw_paras, i + 1, paragraphs)
             ELSE IF MergesIntoPrevious(paragraphs, para)
             THEN LET r      == split_list_para(para, paragraphs[Len(paragraphs)])
                      merged == [paragraphs EXCEPT ![Len(paragraphs)] = r.list_part]
                  IN  ParagraphLoop(raw_paras, i + 1,
                         IF r.tail_varak # None /\ r.tail_varak.val # <<>>
                         THEN Append(merged, r.tail_varak.val) ELSE merged)
             ELSE ParagraphLoop(raw_paras, i + 1, Append(paragraphs, para))

\* mutant of split_paragraphs: the label line is not dropped
AsSplitParagraphsKeepsLabel(section_text) ==
    ParagraphLoop(RawParas(StripText(section_text), 1, <<>>), 1, <<>>)

\* _split_paragraphs(section_text) -> list of paragraphs, each a list of lines
split_paragraphs(section_text) ==
    LET lines         == StripText(section_text)
        content_lines == IF lines # <<>> /\ SectionStartMatch(StripLine(lines[1]))
                         THEN Tail(lines) ELSE lines
    IN  ParagraphLoop(RawParas(content_lines, 1, <<>>), 1, <<>>)

\* the classification of one stripped line in the first loop of _parse_sections
MarkerKind(stripped) ==
    IF PartMatch(stripped) THEN "part"
    ELSE IF ChapterMatch(stripped) THEN "chapter"
    ELSE IF SectionStartMatch(stripped) THEN "section"
    ELSE "none"

\* markers: (line index, kind, stripped line) of every marker line, in line order
RECURSIVE ScanMarkers(_, _)
ScanMarkers(lines, idx) ==
    IF idx > Len(lines) THEN <<>>
    ELSE LET stripped == StripLine(lines[idx])
             kind     == MarkerKind(stripped)
         IN  (IF kind = "none" THEN <<>>
              ELSE <<[idx |-> idx, kind |-> kind, content |-> stripped]>>)
             \o ScanMarkers(lines, idx + 1)

IsSectionMarker(m) == m.kind = "section"

\* mutant of SectionEnd: every span runs to the end of the text
AsSectionEndOfText(section_marker_indices, pos, lines) == Len(lines) + 1

\* end_idx: the line of the next Section marker, or one past the last line
SectionEnd(section_marker_indices, pos, lines) ==
    IF pos + 1 <= Len(section_marker_indices)
    THEN section_marker_indices[pos + 1].idx
    ELSE Len(lines) + 1

\* mutant of TrackHierarchy: a Part marker also clears the chapter
RECURSIVE AsTrackPartClearsChapter(_, _, _, _, _)
AsTrackPartClearsChapter(markers, i, line_idx, part, chapter) ==
    IF i > Len(markers) \/ markers[i].idx >= line_idx
    THEN [part |-> part, chapter |-> chapter]
    ELSE IF markers[i].kind = "part"
    THEN AsTrackPartClearsChapter(markers, i + 1, line_idx, markers[i].content, <<>>)
    ELSE IF markers[i].kind = "chapter"
    THEN AsTrackPartClearsChapter(markers, i + 1, line_idx, part, markers[i].content)
    ELSE AsTrackPartClearsChapter(markers, i + 1, line_idx, part, chapter)

\* the loop that finds part and chapter: the markers before line_idx, in order
RECURSIVE TrackHierarchy(_, _, _, _, _)
TrackHierarchy(markers, i, line_idx, part, chapter) ==
    IF i > Len(markers) \/ markers[i].idx >= line_idx
    THEN [part |-> part, chapter |-> chapter]
    ELSE IF markers[i].kind = "part"
    THEN TrackHierarchy(markers, i + 1, line_idx, markers[i].content, chapter)
    ELSE IF markers[i].kind = "chapter"
    THEN TrackHierarchy(markers, i + 1, line_idx, part, markers[i].content)
    ELSE TrackHierarchy(markers, i + 1, line_idx, part, chapter)

\* the run of numerals that starts at position k
RECURSIVE DigitRun(_, _)
DigitRun(s, k) ==
    IF k <= Len(s) /\ s[k] \in Digits THEN <<ToArabic(s[k])>> \o DigitRun(s, k + 1)
    ELSE <<>>

\* number: group 1 of (?:matra|kho)\s+([digit]+(?:/[digit]+)?) in Arabic numerals
SectionNumber(label) ==
    LET k    == SkipSpace(label, 2)
        head == DigitRun(label, k)
        e    == k + Len(head)
        sub  == IF e <= Len(label) /\ label[e] = "/" THEN DigitRun(label, e + 1)
                ELSE <<>>
    IN  IF sub # <<>> THEN head \o <<"/">> \o sub ELSE head

\* _parse_sections(text) -> list[LawSection]
parse_sections(lines) ==
    LET markers == ScanMarkers(lines, 1)
        section_marker_indices == SelectSeq(markers, IsSectionMarker)
    IN  [pos \in 1..Len(section_marker_indices) |->
            LET line_idx     == section_marker_indices[pos].idx
                label        == section_marker_indices[pos].content
                end_idx      == SectionEnd(section_marker_indices, pos, lines)
                section_text == StripText(SubSeq(lines, line_idx, end_idx - 1))
                h            == TrackHierarchy(markers, 1, line_idx, <<>>, <<>>)
            IN  [ number     |-> SectionNumber(label),
                  label      |-> label,
                  text       |-> section_text,
                  part       |-> h.part,
                  chapter    |-> h.chapter,
                  paragraphs |-> split_paragraphs(section_text) ]]

\* chunk_law_document and extract_law are not running
ChunkIdle ==
    /\ doc = MkDoc(<<>>, <<>>, ACT, <<>>)
    /\ cpc = "done"
    /\ sec_i = 1
    /\ chunks = <<>>
    /\ chunk_index = 0
    /\ pending = <<>>
    /\ pending_chars = 0
    /\ pending_chapter = None
    /\ covered = <<>>

\* all texts of at most n lines over an alphabet of lines
RECURSIVE Texts(_, _)
Texts(n, alphabet) ==
    IF n = 0 THEN {<<>>}
    ELSE LET shorter == Texts(n - 1, alphabet)
         IN  shorter \cup {Append(t, l) : t \in {u \in shorter : Len(u) = n - 1},
                                          l \in alphabet}

(***************************************************************************)
(* _parse_sections applied to a preprocessed text                          *)
(***************************************************************************)
MaxParseLines == 4

ParseLines ==
    { <<"matra", " ", "1">>,                         \* Section 1
      <<" ", "kho", " ", "th5", "/", "2", " ", "word">>,   \* indented, text after the number
      <<"matra", "1">>,                              \* no space: not a marker
      <<"phak", " ", "1">>,                          \* Part 1
      <<"phak", "thi", "2", " ", "word">>,           \* Part 2 with a title
      <<"muat", " ", "th5", " ">>,                   \* Chapter 5, trailing space
      <<"word">>,
      <<>> }

InitParse ==
    /\ ChunkIdle
    /\ ExtractStart
    /\ workers = <<>>
    /\ fn_in \in Texts(MaxParseLines, ParseLines)
    /\ fn_out = <<>>
    /\ fn_pc = "input"

ApplyParseSections ==
    /\ fn_pc = "input"
    /\ fn_out' = parse_sections(fn_in)
    /\ fn_pc' = "done"
    /\ UNCHANGED <<fn_in, workers, chunk_vars, extract_vars>>

SpecParse == InitParse /\ [][ApplyParseSections]_vars

\* the lines of a text that a pattern matches once stripped
SectionMarkerLines(lines) ==
    {i \in 1..Len(lines) : SectionStartMatch(StripLine(lines[i]))}
PartMarkerLines(lines) == {i \in 1..Len(lines) : PartMatch(StripLine(lines[i]))}
ChapterMarkerLines(lines) == {i \in 1..Len(lines) : ChapterMatch(StripLine(lines[i]))}

\* the position of line i among the lines of M, and the line of M after it
RankIn(M, i) == Cardinality({j \in M : j <= i})
NextIn(M, i, lines) ==
    IF \E j \in M : j > i THEN CHOOSE j \in M : j > i /\ \A k \in M : k > i => j <= k
    ELSE Len(lines) + 1

\* the lines from a Section marker up to but excluding the next Section marker
SpanOf(lines, i) == SubSeq(lines, i, NextIn(SectionMarkerLines(lines), i, lines) - 1)

\* C11 as stated: one Section per Section-marker line, in line order, whose text
\* is exactly the lines of its span.  The code strips the joined span, so a span
\* that ends in a blank line or starts with an indented marker refutes it.
C11_TextIsExactlySpan ==
    fn_pc = "done" =>
        LET M == SectionMarkerLines(fn_in)
        IN  /\ Len(fn_out) = Cardinality(M)
            /\ \A i \in M : fn_out[RankIn(M, i)].text = SpanOf(fn_in, i)

\* C11, amended: one Section per Section-marker line, in increasing line order;
\* each Section's text is the lines from its marker line up to but excluding the
\* next Section-marker line (the end of the text for the last one), stripped of
\* the whitespace and blank lines at both ends; no line before the first marker
\* is in any Section.
C11_TextIsStrippedSpan ==
    fn_pc = "done" =>
        LET M == SectionMarkerLines(fn_in)
        IN  /\ Len(fn_out) = Cardinality(M)
            /\ \A i \in M :
                 /\ fn_out[RankIn(M, i)].label = StripLine(fn_in[i])
                 /\ fn_out[RankIn(M, i)].text = StripText(SpanOf(fn_in, i))

\* two Sections came back, and the span of the first ends in a blank line that
\* its text does not have
C11_Witness ==
    /\ fn_pc = "done"
    /\ Len(fn_out) = 2
    /\ \E i \in SectionMarkerLines(fn_in) :
         /\ RankIn(SectionMarkerLines(fn_in), i) = 1
         /\ Len(SpanOf(fn_in, i)) = 3
         /\ SpanOf(fn_in, i)[3] = <<>>
         /\ Len(fn_out[1].text) = 2

\* the last line of M at or before line i, as an Optional
LastAtOrBefore(M, i) ==
    IF \E j \in M : j <= i
    THEN Some(CHOOSE j \in M : j <= i /\ \A k \in M : k <= i => k <= j)
    ELSE None

\* the stripped text of the line LastAtOrBefore names, "" when there is none
HeadingAt(lines, M, i) ==
    LET j == LastAtOrBefore(M, i)
    IN  IF j = None THEN <<>> ELSE StripLine(lines[j.val])

\* C12: each Section's part is the text of the most recent Part-marker line at or
\* before its marker line, its chapter that of the most recent Chapter-marker
\* line, "" when none precedes; the two are tracked independently.
C12_PartAndChapterIndependent ==
    fn_pc = "done" =>
        LET M == SectionMarkerLines(fn_in)
        IN  \A i \in M :
              /\ fn_out[RankIn(M, i)].part = HeadingAt(fn_in, PartMarkerLines(fn_in), i)
              /\ fn_out[RankIn(M, i)].chapter =
                    HeadingAt(fn_in, ChapterMarkerLines(fn_in), i)

\* a Section that follows a Chapter marker and then a later Part marker, and
\* still has that chapter
C12_Witness ==
    /\ fn_pc = "done"
    /\ \E i \in SectionMarkerLines(fn_in) :
       \E c \in ChapterMarkerLines(fn_in), q \in PartMarkerLines(fn_in) :
         /\ c < q /\ q < i
         /\ fn_out[RankIn(SectionMarkerLines(fn_in), i)].chapter = StripLine(fn_in[c])
         /\ fn_out[RankIn(SectionMarkerLines(fn_in), i)].part = StripLine(fn_in[q])

(***************************************************************************)
(* _split_paragraphs applied to the text of one Section                    *)
(***************************************************************************)
MaxParaLines == 6

ParaLines ==
    { <<"word">>,                            \* a sentence that starts with a non-list word
      <<>>,                                  \* a blank line
      <<"(1)", " ", "word">>,                \* a list item
      <<" ", "(ko)", " ", "word">>,          \* an indented list item
      <<"ratthamontri", " ", "word">> }      \* a sentence about a new subject

InitParagraphs ==
    /\ ChunkIdle
    /\ ExtractStart
    /\ workers = <<>>
    /\ fn_in \in Texts(MaxParaLines, ParaLines)
    /\ fn_out = <<>>
    /\ fn_pc = "input"

ApplySplitParagraphs ==
    /\ fn_pc = "input"
    /\ fn_out' = split_paragraphs(fn_in)
    /\ fn_pc' = "done"
    /\ UNCHANGED <<fn_in, workers, chunk_vars, extract_vars>>

SpecParagraphs == InitParagraphs /\ [][ApplySplitParagraphs]_vars

\* the last blank-line-separated candidate of a text: where it starts, its lines,
\* and whether it is a list-item block with a paragraph before it
SolidLines(lines) == {i \in 1..Len(lines) : ~IsBlank(lines[i])}
LastBlockStart(lines) ==
    CHOOSE i \in SolidLines(lines) :
        /\ \A j \in i..Len(lines) : j \in SolidLines(lines) \/ \A k \in j..Len(lines) : k \notin SolidLines(lines)
        /\ (i = 1 \/ (i - 1) \notin SolidLines(lines))
LastBlock(lines) == StripText(SubSeq(lines, LastBlockStart(lines), Len(lines)))
EndsInListBlock(lines) ==
    /\ SolidLines(lines) # {}
    /\ \E j \in SolidLines(lines) : j < LastBlockStart(lines)
    /\ ListItemMatch(LastBlock(lines)[1])

\* the paragraphs of the text before the last candidate
ParagraphsBefore(lines) == split_paragraphs(SubSeq(lines, 1, LastBlockStart(lines) - 1))

\* the first line of a block that starts with a definite new-subject noun, if any
SubjectLines(block) == {i \in 1..Len(block) : DefiniteSubjectMatch(StripLine(block[i]))}
FirstSubjectLine(block) ==
    CHOOSE i \in SubjectLines(block) : \A j \in SubjectLines(block) : i <= j

\* the example of the claim: intro, blank, two list items, blank, closing sentence
C13_Example ==
    << <<"word">>, <<>>, <<"(1)", " ", "word">>, <<"(1)", " ", "word">>, <<>>, <<"word">> >>

\* C13: a candidate that begins with a list-item marker while a previous paragraph
\* exists is merged into that paragraph and never starts a paragraph of its own:
\* no paragraph after the first begins with a list marker, the first line of such a
\* candidate continues the paragraph before it, and the example gives 2 paragraphs.
C13_ListItemsMergeIntoPrevious ==
    fn_pc = "done" =>
        /\ \A k \in 2..Len(fn_out) : ~ListItemMatch(fn_out[k][1])
        /\ EndsInListBlock(fn_in) =>
             LET before == ParagraphsBefore(fn_in)
                 n      == Len(before)
             IN  /\ Len(fn_out) >= n
                 /\ SubSeq(fn_out, 1, n - 1) = SubSeq(before, 1, n - 1)
                 /\ Len(fn_out[n]) > Len(before[n])
                 /\ SubSeq(fn_out[n], 1, Len(before[n])) = before[n]
                 /\ fn_out[n][Len(before[n]) + 1] = LastBlock(fn_in)[1]
        /\ fn_in = C13_Example =>
             fn_out = << << <<"word">>, <<"(1)", " ", "word">>, <<"(1)", " ", "word">> >>,
                         << <<"word">> >> >>

\* the example has been split
C13_Witness == fn_pc = "done" /\ fn_in = C13_Example /\ Len(fn_out) = 2

\* C20: in a list-item block merged into the previous paragraph, the first line
\* that begins with a definite new-subject noun and every line after it form one
\* new trailing paragraph and the lines before it stay merged into the preceding
\* paragraph; a block without such a line adds no paragraph.
C20_NewSubjectStartsTrailingParagraph ==
    (fn_pc = "done" /\ EndsInListBlock(fn_in)) =>
        LET before == ParagraphsBefore(fn_in)
            n      == Len(before)
            block  == LastBlock(fn_in)
        IN  IF SubjectLines(block) = {}
            THEN fn_out = [before EXCEPT ![n] = before[n] \o block]
            ELSE LET d == FirstSubjectLine(block)
                 IN  fn_out = Append([before EXCEPT ![n] = before[n] \o SubSeq(block, 1, d - 1)],
                                     SubSeq(block, d, Len(block)))

\* a block of a list item, a new-subject line and one more list item after it: the
\* last two lines are the new last paragraph
C20_Witness ==
    /\ fn_pc = "done"
    /\ EndsInListBlock(fn_in)
    /\ Len(LastBlock(fn_in)) = 3
    /\ SubjectLines(LastBlock(fn_in)) = {2}
    /\ ListItemMatch(StripLine(LastBlock(fn_in)[3]))
    /\ Len(fn_out[Len(fn_out)]) = 2

(***************************************************************************)
(* _detect_law_meta: law_type from the filename and the head of the text.  *)
(*                                                                         *)
(* A filename is a sequence of characters and words: prb is the            *)
(* abbreviation without dots, pho . ro . bo the one with dots, rabiap      *)
(* Regulation, kotkrasuang Ministerial Rule, prakat Announcement,          *)
(* ratchakitcha the Gazette.                                               *)
(***************************************************************************)
MINISTERIAL_RULE == <<"kotkrasuang">>
ANNOUNCEMENT     == <<"prakat">>
GENERIC_LAW      == <<"kotmai">>

\* `pat in s`
Contains(s, pat) ==
    \E i \in 1..(Len(s) - Len(pat) + 1) : SubSeq(s, i, i + Len(pat) - 1) = pat

\* PurePath.name: the last component; separators at the end and doubled ones count
\* for nothing
PathName(filename) ==
    LET chars == {i \in 1..Len(filename) : filename[i] # "/"}
    IN  IF chars = {} THEN <<>>
        ELSE LET e    == CHOOSE i \in chars : \A j \in chars : j <= i
                 seps == {i \in 1..e : filename[i] = "/"}
                 b    == IF seps = {} THEN 1
                         ELSE (CHOOSE i \in seps : \A j \in seps : j <= i) + 1
             IN  SubSeq(filename, b, e)

\* PurePath.stem: the name without its last suffix; a dot that starts or ends
\* the name starts no suffix
PathStem(filename) ==
    LET name == PathName(filename)
        dots == {i \in 1..Len(name) : name[i] = "."}
    IN  IF dots = {} THEN name
        ELSE LET i == CHOOSE d \in dots : \A j \in dots : j <= d
             IN  IF 1 < i /\ i < Len(name) THEN SubSeq(name, 1, i - 1) ELSE name

\* str.lower(), a character at a time
LowerChar(c) == IF c = "X" THEN "x" ELSE IF c = "PDF" THEN "pdf" ELSE c
Lower(s) == [i \in 1..Len(s) |-> LowerChar(s[i])]

ACT_ABBREV        == <<"prb">>
ACT_ABBREV_DOTTED == <<"pho", ".", "ro", ".", "bo">>
GAZETTE           == <<"ratchakitcha">>

\* the number of characters of a word of the text
HeadChars(t) ==
    CASE t = "rabiap" -> 7
      [] t = "kotkrasuang" -> 9
      [] t = "phraratchabanyat" -> 13
      [] t = "prakat" -> 6
      [] t = "preamble300" -> 300
      [] OTHER -> 1

HEAD_LEN == 300

\* text[:n], as far as whole words go: a keyword cut by the slice is none
RECURSIVE TextSlice(_, _)
TextSlice(s, n) ==
    IF s = <<>> \/ HeadChars(Head(s)) > n THEN <<>>
    ELSE <<Head(s)>> \o TextSlice(Tail(s), n - HeadChars(Head(s)))

\* mutant of TextLawType: the fallback in the order of the filename rules
AsTextLawTypeFilenameOrder(head300) ==
    IF Contains(head300, ACT) THEN ACT
    ELSE IF Contains(head300, REGULATION) THEN REGULATION
    ELSE IF Contains(head300, MINISTERIAL_RULE) THEN MINISTERIAL_RULE
    ELSE IF Contains(head300, ANNOUNCEMENT) THEN ANNOUNCEMENT
    ELSE GENERIC_LAW

\* the fallback on the first 300 characters of the text
TextLawType(head300) ==
    IF Contains(head300, <<"rabiap", "krasuang">>) \/ Contains(head300, REGULATION)
    THEN REGULATION
    ELSE IF Contains(head300, MINISTERIAL_RULE) THEN MINISTERIAL_RULE
    ELSE IF Contains(head300, ACT) THEN ACT
    ELSE GENERIC_LAW

\* step 1 of _detect_law_meta(text, filename): law_type
detect_law_type(txt, filename) ==
    LET stem == Lower(PathStem(filename))
    IN  IF Contains(stem, ACT_ABBREV) \/ Contains(stem, ACT_ABBREV_DOTTED) THEN ACT
        ELSE IF Contains(stem, REGULATION) THEN REGULATION
        ELSE IF Contains(stem, MINISTERIAL_RULE) THEN MINISTERIAL_RULE
        ELSE IF Contains(stem, ANNOUNCEMENT) /\ ~Contains(stem, GAZETTE) THEN ANNOUNCEMENT
        ELSE TextLawType(TextSlice(txt, HEAD_LEN))

MaxNameParts == 3
MaxHeadWords == 2

NameParts ==
    { ACT_ABBREV, ACT_ABBREV_DOTTED, REGULATION, MINISTERIAL_RULE, ANNOUNCEMENT,
      GAZETTE, <<"X">>, <<"/">>, <<".", "pdf">> }

HeadWords == {"rabiap", "kotkrasuang", "phraratchabanyat", "prakat", "preamble300"}

\* the concatenations of at most n of the parts
RECURSIVE Joined(_, _)
Joined(n, parts) ==
    IF n = 0 THEN {<<>>}
    ELSE LET shorter == Joined(n - 1, parts)
         IN  shorter \cup {s \o q : s \in shorter, q \in parts}

InitMeta ==
    /\ ChunkIdle
    /\ ExtractStart
    /\ workers = <<>>
    /\ fn_in \in [ filename : Joined(MaxNameParts, NameParts),
                   text     : Texts(MaxHeadWords, HeadWords) ]
    /\ fn_out = <<>>
    /\ fn_pc = "input"

ApplyDetectLawType ==
    /\ fn_pc = "input"
    /\ fn_out' = detect_law_type(fn_in.text, fn_in.filename)
    /\ fn_pc' = "done"
    /\ UNCHANGED <<fn_in, workers, chunk_vars, extract_vars>>

SpecMeta == InitMeta /\ [][ApplyDetectLawType]_vars

HasActKeyword(s) == Contains(s, ACT_ABBREV) \/ Contains(s, ACT_ABBREV_DOTTED)
HasLawTypeKeyword(s) ==
    \/ HasActKeyword(s)
    \/ Contains(s, REGULATION)
    \/ Contains(s, MINISTERIAL_RULE)
    \/ Contains(s, ANNOUNCEMENT)

\* C14 as stated: law_type is Act for every filename that contains an Act keyword,
\* whatever else the filename and the text contain.  The code looks the keyword
\* up in the stem of the filename, which lacks a keyword that lies in a directory
\* part or runs into the last suffix.
C14_ActKeywordInFilenameWins ==
    (fn_pc = "done" /\ HasActKeyword(fn_in.filename)) => fn_out = ACT

\* C18 as stated: without a law-type keyword in the filename, law_type comes from
\* the first 300 characters of the text in the order Act, Regulation,
\* Ministerial Rule, Announcement, the generic type when none occurs.
C18_TextFallbackInFilenameOrder ==
    (fn_pc = "done" /\ ~HasLawTypeKeyword(fn_in.filename)) =>
        LET head300 == TextSlice(fn_in.text, HEAD_LEN)
        IN  fn_out = IF Contains(head300, ACT) THEN ACT
                     ELSE IF Contains(head300, REGULATION) THEN REGULATION
                     ELSE IF Contains(head300, MINISTERIAL_RULE) THEN MINISTERIAL_RULE
                     ELSE IF Contains(head300, ANNOUNCEMENT) THEN ANNOUNCEMENT
                     ELSE GENERIC_LAW

\* C18, amended: without a law-type keyword in the filename, law_type comes from
\* the first 300 characters of the text in the order Regulation, Ministerial
\* Rule, Act; the text never yields Announcement, and the generic type is the
\* result when none of the three occurs.
C18_TextFallbackRegulationFirst ==
    (fn_pc = "done" /\ ~HasLawTypeKeyword(fn_in.filename)) =>
        LET head300 == TextSlice(fn_in.text, HEAD_LEN)
        IN  /\ Contains(head300, REGULATION) => fn_out = REGULATION
            /\ (~Contains(head300, REGULATION) /\ Contains(head300, MINISTERIAL_RULE))
                  => fn_out = MINISTERIAL_RULE
            /\ (~Contains(head300, REGULATION) /\ ~Contains(head300, MINISTERIAL_RULE)
                /\ Contains(head300, ACT)) => fn_out = ACT
            /\ (~Contains(head300, REGULATION) /\ ~Contains(head300, MINISTERIAL_RULE)
                /\ ~Contains(head300, ACT)) => fn_out = GENERIC_LAW

\* a filename without keyword and a text that names the Act before the
\* Regulation: the result is Regulation
C18_Witness ==
    /\ fn_pc = "done"
    /\ ~HasLawTypeKeyword(fn_in.filename)
    /\ fn_in.filename = <<"X", ".", "pdf">>
    /\ fn_in.text = <<"phraratchabanyat", "rabiap">>
    /\ fn_out = REGULATION

(***************************************************************************)
(* _strip_page_headers.  Here a text is text.split("\n"): the lines        *)
(* between its newlines, so a text that ends in a newline has an empty     *)
(* last line.  na is the word "page", lem "volume", ratchakitcha the name  *)
(* of the Gazette, kumphaphan a month.                                     *)
(***************************************************************************)
\* na[ \t]+[digit]+ matches at position k of a line
PageNumberAt(l, k) ==
    /\ k + 2 <= Len(l)
    /\ l[k] = "na"
    /\ IsSpace(l[k + 1])
    /\ LET d == SkipSpace(l, k + 1) IN d <= Len(l) /\ l[d] \in Digits

\* the stamp pattern matches from position k of line i:
\*   na[ \t]+[digit]+[^\n]*\n [^\n]*lem[^\n]*\n [^\n]*ratchakitcha[^\n]*\n [^\n]*\n?
StampAt(ls, i, k) ==
    /\ i + 3 <= Len(ls)
    /\ PageNumberAt(ls[i], k)
    /\ Contains(ls[i + 1], <<"lem">>)
    /\ Contains(ls[i + 2], <<"ratchakitcha">>)

\* re.sub(stamp, "\n", text), scanning from line i: what is left of the line
\* before the match, then the text after the fourth line
RECURSIVE SubStamps(_, _)
SubStamps(ls, i) ==
    IF i > Len(ls) THEN <<>>
    ELSE LET starts == {k \in 1..Len(ls[i]) : StampAt(ls, i, k)}
         IN  IF starts = {} THEN <<ls[i]>> \o SubStamps(ls, i + 1)
             ELSE LET k == CHOOSE a \in starts : \A b \in starts : a <= b
                  IN  <<SubSeq(ls[i], 1, k - 1)>>
                      \o (IF i + 3 = Len(ls) THEN <<<<>>>> ELSE SubStamps(ls, i + 4))

\* re.sub(r"\n[ \t]*\n[ \t]*\n", "\n\n", text), scanning from line j >= 2: two
\* blank lines with a line before and a line after them become one empty line
RECURSIVE CollapseBlank(_, _)
CollapseBlank(ls, j) ==
    IF j > Len(ls) THEN <<>>
    ELSE IF j + 1 < Len(ls) /\ IsBlank(ls[j]) /\ IsBlank(ls[j + 1])
    THEN <<<<>>, ls[j + 2]>> \o CollapseBlank(ls, j + 3)
    ELSE <<ls[j]>> \o CollapseBlank(ls, j + 1)

\* _strip_page_headers(text)
strip_page_headers(ls) ==
    LET stripped == SubStamps(ls, 1)
    IN  IF stripped = <<>> THEN <<>>
        ELSE <<stripped[1]>> \o CollapseBlank(stripped, 2)

MaxStripLines == 5

StripLines ==
    { <<"na", " ", "th5">>,                       \* page 5
      <<"lem", " ", "1">>,                        \* volume 1
      <<"ratchakitcha">>,
      <<"2", " ", "kumphaphan", " ", "th5">>,     \* a date
      <<"matra", " ", "1">>,
      <<"word", " ", "na", " ", "3">>,            \* content that refers to page 3
      <<"word">>,
      <<>> }

InitStrip ==
    /\ ChunkIdle
    /\ ExtractStart
    /\ workers = <<>>
    /\ fn_in \in Texts(MaxStripLines, StripLines) \ {<<>>}
    /\ fn_out = <<>>
    /\ fn_pc = "input"

ApplyStripPageHeaders ==
    /\ fn_pc = "input"
    /\ fn_out' = strip_page_headers(fn_in)
    /\ fn_pc' = "done"
    /\ UNCHANGED <<fn_in, workers, chunk_vars, extract_vars>>

SpecStrip == InitStrip /\ [][ApplyStripPageHeaders]_vars

\* the four lines of a page stamp, as the docstring describes them
IsPageLine(l)    == PageNumberAt(l, 1)
IsVolumeLine(l)  == l # <<>> /\ l[1] = "lem"
IsPubLine(l)     == l = <<"ratchakitcha">>
IsDateLine(l)    == Len(l) >= 3 /\ l[1] \in Digits /\ Contains(l, <<"kumphaphan">>)

\* line i is one of four consecutive lines that make a complete stamp
InCompleteStamp(ls, i) ==
    \E a \in (i - 3)..i :
        /\ a >= 1 /\ a + 3 <= Len(ls)
        /\ IsPageLine(ls[a]) /\ IsVolumeLine(ls[a + 1])
        /\ IsPubLine(ls[a + 2]) /\ IsDateLine(ls[a + 3])

\* the lines of a text at the positions of S, in order
RECURSIVE KeptLines(_, _, _)
KeptLines(ls, i, S) ==
    IF i > Len(ls) THEN <<>>
    ELSE (IF i \in S THEN <<ls[i]>> ELSE <<>>) \o KeptLines(ls, i + 1, S)

OutsideStamp(ls) == {i \in 1..Len(ls) : ~IsBlank(ls[i]) /\ ~InCompleteStamp(ls, i)}

\* C19 as stated: a line goes only as one of the four lines of a complete stamp
\* (page-number, volume, publication-name and date line, in this order); every
\* other line, such as a Section-marker line after three stamp lines, is kept.
\* Blank lines aside, the lines of the result would be the lines outside the
\* complete stamps; the code takes any fourth line with the first three.
C19_OnlyCompleteStampsRemoved ==
    fn_pc = "done" =>
        KeptLines(fn_out, 1, SolidLines(fn_out)) = KeptLines(fn_in, 1, OutsideStamp(fn_in))

(***************************************************************************)
(* ThaiTextSplitter.split (chunker.py) with the default sizes.  The        *)
(* sentence tokenizer is a library call: the model starts from the list    *)
(* of sentences it returns.  A sentence is named by its length; a blank    *)
(* one holds whitespace only.                                              *)
(***************************************************************************)
CHUNK_SIZE    == 400
CHUNK_OVERLAP == 100

Sentences == {"sent150", "sent300", "sent450", "blank50", "blank300"}

\* len(sent)
SentLen(sent) ==
    CASE sent = "sent150" -> 150
      [] sent = "sent300" -> 300
      [] sent = "sent450" -> 450
      [] sent = "blank50" -> 50
      [] sent = "blank300" -> 300

IsBlankSent(sent) == sent \in {"blank50", "blank300"}

\* "".join(current_sentences).strip(): the blank sentences at both ends go
RECURSIVE JoinStrip(_)
JoinStrip(ss) ==
    IF ss = <<>> THEN <<>>
    ELSE IF IsBlankSent(Head(ss)) THEN JoinStrip(Tail(ss))
    ELSE IF IsBlankSent(ss[Len(ss)]) THEN JoinStrip(SubSeq(ss, 1, Len(ss) - 1))
    ELSE ss

\* chunks after `if chunk_text: chunks.append(Chunk(...))`
WithChunk(chunk_list, chunk_text, idx) ==
    IF chunk_text # <<>>
    THEN Append(chunk_list, [text |-> chunk_text, chunk_index |-> idx])
    ELSE chunk_list

\* mutant of BumpIndex: the skipped candidates are counted too
AsBumpIndexAlways(chunk_text, idx) == idx + 1

\* chunk_index after the emission of a candidate chunk
BumpIndex(chunk_text, idx) == IF chunk_text # <<>> THEN idx + 1 ELSE idx

\* the overlap loop: the longest tail of current_sentences of at most
\* CHUNK_OVERLAP characters, taken a sentence at a time from the end
RECURSIVE OverlapLoop(_, _, _)
OverlapLoop(current_sentences, overlap_sentences, overlap_len) ==
    IF current_sentences = <<>> THEN [sentences |-> overlap_sentences, len |-> overlap_len]
    ELSE LET s == current_sentences[Len(current_sentences)]
         IN  IF overlap_len + SentLen(s) > CHUNK_OVERLAP
             THEN [sentences |-> overlap_sentences, len |-> overlap_len]
             ELSE OverlapLoop(SubSeq(current_sentences, 1, Len(current_sentences) - 1),
                              <<s>> \o overlap_sentences, overlap_len + SentLen(s))

\* `for sent in sentences` and the final emission
RECURSIVE SplitLoop(_, _, _, _, _, _)
SplitLoop(sentences, i, chunk_list, current_sentences, current_len, idx) ==
    IF i > Len(sentences)
    THEN IF current_sentences # <<>>
         THEN WithChunk(chunk_list, JoinStrip(current_sentences), idx)
         ELSE chunk_list
    ELSE LET sent     == sentences[i]
             sent_len == SentLen(sent)
         IN  IF current_len + sent_len > CHUNK_SIZE /\ current_sentences # <<>>
             THEN LET chunk_text == JoinStrip(current_sentences)
                      o          == OverlapLoop(current_sentences, <<>>, 0)
                  IN  SplitLoop(sentences, i + 1,
                                WithChunk(chunk_list, chunk_text, idx),
                                Append(o.sentences, sent), o.len + sent_len,
                                BumpIndex(chunk_text, idx))
             ELSE SplitLoop(sentences, i + 1, chunk_list,
                            Append(current_sentences, sent), current_len + sent_len, idx)

\* ThaiTextSplitter.split, from the tokenizer's result on
split(sentences) ==
    IF sentences = <<>> THEN <<>> ELSE SplitLoop(sentences, 1, <<>>, <<>>, 0, 0)

MaxSentences == 4

InitSplit ==
    /\ ChunkIdle
    /\ ExtractStart
    /\ workers = <<>>
    /\ fn_in \in Texts(MaxSentences, Sentences)
    /\ fn_out = <<>>
    /\ fn_pc = "input"

ApplySplit ==
    /\ fn_pc = "input"
    /\ fn_out' = split(fn_in)
    /\ fn_pc' = "done"
    /\ UNCHANGED <<fn_in, workers, chunk_vars, extract_vars>>

SpecSplit == InitSplit /\ [][ApplySplit]_vars

\* C16: the chunks are numbered 0, 1, 2, ... in list order without a gap, also
\* when a candidate chunk of whitespace only was skipped; empty and
\* whitespace-only input gives the empty list.
C16_SplitIndexSequential ==
    fn_pc = "done" =>
        /\ \A k \in 1..Len(fn_out) : fn_out[k].chunk_index = k - 1
        /\ (\A k \in 1..Len(fn_in) : IsBlankSent(fn_in[k])) => fn_out = <<>>

\* two blank sentences overflow the chunk size, so a candidate of whitespace
\* only is skipped first; two chunks follow
C16_Witness ==
    /\ fn_pc = "done"
    /\ Len(fn_in) = 4
    /\ fn_in[1] = "blank300" /\ fn_in[2] = "blank300"
    /\ Len(fn_out) = 2
    /\ fn_out[2].chunk_index = 1

\* C17 as stated: extract_law invokes the remote OCR at most once per call; an
\* invocation that raises is not followed by a second one in the same call.  On
\* the sparse-text path the raising invocation sits inside the try block and
\* the handler invokes it again.
C17_RemoteOcrAtMostOnce ==
    hist # NoHist => hist.gemini_calls <= 1

(***************************************************************************)
(* extract_law calls running side by side (threads or processes of a       *)
(* batch driver) on one cache directory.  Each worker extracts one         *)
(* document, again and again; the steps between two accesses to the cache  *)
(* directory are one action.  Path.write_text opens the file, which        *)
(* empties it, and writes afterwards.                                      *)
(***************************************************************************)
Workers == {"w1", "w2"}

\* calls started by all workers together
MaxWorkerCalls == 3

\* a cache file that is open for writing and still empty
Torn == [torn |-> TRUE]

IdleWorker(file_id) ==
    [ pc       |-> "idle",
      file_id  |-> file_id,
      filename |-> "",
      force    |-> FALSE,
      doc      |-> None,       \* the LawDocument built or loaded
      made     |-> {},         \* history: the LawDocuments this worker built
      raced    |-> FALSE,      \* history: its cache write overlapped another one
      round    |-> 0 ]

\* the texts an extraction can end with, and the engine that gave them
WorkerExtractions ==
    { [t |-> ExtractPymupdf(CHOOSE pdf \in Pdfs : pdf.name = "text-layer").text,
       engine |-> "pymupdf"],
      [t |-> ExtractGemini("text"), engine |-> "gemini"] }

CallsStarted == workers["w1"].round + workers["w2"].round

sequential_idle == UNCHANGED <<chunk_vars, fn_vars, epc, args, text, ocr_engine,
                                law_meta, result, calls, hist, prev>>

InitWorkers ==
    /\ ChunkIdle
    /\ ExtractStart
    /\ fn_in = <<>> /\ fn_out = <<>> /\ fn_pc = "off"
    /\ \E ids \in [Workers -> FileIds] : workers = [w \in Workers |-> IdleWorker(ids[w])]

\* extract_law(pdf_bytes, file_id, filename, force) is called
WorkerCall ==
    \E w \in Workers, filename \in Filenames, force \in BOOLEAN :
        /\ workers[w].pc \in {"idle", "returned", "raised"}
        /\ CallsStarted < MaxWorkerCalls
        /\ workers' = [workers EXCEPT ![w] =
               [@ EXCEPT !.pc = "cache", !.filename = filename, !.force = force,
                         !.doc = None, !.raced = FALSE, !.round = @ + 1]]
        /\ UNCHANGED <<cache, md_files>>
        /\ sequential_idle

\* _load_cache finds a complete record: the call returns the cached LawDocument
WorkerCacheHit ==
    \E w \in Workers :
        /\ workers[w].pc = "cache"
        /\ ~workers[w].force
        /\ LoadCache(workers[w].file_id) \notin {NoFile, Torn}
        /\ workers' = [workers EXCEPT ![w] =
               [@ EXCEPT !.pc = "returned",
                         !.doc = DocFromCache(LoadCache(workers[w].file_id))]]
        /\ UNCHANGED <<cache, md_files>>
        /\ sequential_idle

\* _load_cache reads a file that is being written: json.loads raises
WorkerCacheTorn ==
    \E w \in Workers :
        /\ workers[w].pc = "cache"
        /\ ~workers[w].force
        /\ LoadCache(workers[w].file_id) = Torn
        /\ workers' = [workers EXCEPT ![w] = [@ EXCEPT !.pc = "raised"]]
        /\ UNCHANGED <<cache, md_files>>
        /\ sequential_idle

\* force, or no cache file: extraction, metadata, preprocessing, parsing and
\* the LawDocument constructor
WorkerExtract ==
    \E w \in Workers, x \in WorkerExtractions :
        /\ workers[w].pc = "cache"
        /\ workers[w].force \/ LoadCache(workers[w].file_id) = NoFile
        /\ LET meta     == DetectLawMeta(x.t, workers[w].filename)
               clean    == NormalizeSectionHeaders(StripPageHeaders(x.t))
               sections == ParseSections(clean)
               built    == LawDocument(workers[w].filename, workers[w].file_id, meta,
                                       sections, clean, x.engine, Len(sections))
           IN  workers' = [workers EXCEPT ![w] =
                   [@ EXCEPT !.pc = "save_open", !.doc = built,
                             !.made = @ \cup {built}]]
        /\ UNCHANGED <<cache, md_files>>
        /\ sequential_idle

\* the same steps, ended by an exception
WorkerExtractRaises ==
    \E w \in Workers :
        /\ workers[w].pc = "cache"
        /\ workers[w].force \/ LoadCache(workers[w].file_id) = NoFile
        /\ workers' = [workers EXCEPT ![w] = [@ EXCEPT !.pc = "raised"]]
        /\ UNCHANGED <<cache, md_files>>
        /\ sequential_idle

\* _save_cache: write_text opens (and empties) the cache file
WorkerSaveOpen ==
    \E w \in Workers :
        /\ workers[w].pc = "save_open"
        /\ cache' = [cache EXCEPT ![CachePath(workers[w].file_id)] = Torn]
        /\ workers' = [workers EXCEPT ![w] = [@ EXCEPT !.pc = "save_write"]]
        /\ UNCHANGED md_files
        /\ sequential_idle

\* _save_cache: write_text writes the JSON text and closes the file
WorkerSaveWrite ==
    \E w \in Workers :
        /\ workers[w].pc = "save_write"
        /\ cache' = [cache EXCEPT ![CachePath(workers[w].file_id)] =
                        CacheRecord(workers[w].doc)]
        /\ workers' = [workers EXCEPT ![w] =
               [@ EXCEPT !.pc = "save_md",
                         !.raced = \E v \in Workers \ {w} : workers[v].pc = "save_write"]]
        /\ UNCHANGED md_files
        /\ sequential_idle

\* _save_md_backup, and return doc
WorkerSaveMd ==
    \E w \in Workers :
        /\ workers[w].pc = "save_md"
        /\ md_files' = [md_files EXCEPT ![MdPath(workers[w].filename)] =
                           BuildMdText(workers[w].doc)]
        /\ workers' = [workers EXCEPT ![w] = [@ EXCEPT !.pc = "returned"]]
        /\ UNCHANGED cache
        /\ sequential_idle

NextWorkers ==
    \/ WorkerCall \/ WorkerCacheHit \/ WorkerCacheTorn
    \/ WorkerExtract \/ WorkerExtractRaises
    \/ WorkerSaveOpen \/ WorkerSaveWrite \/ WorkerSaveMd

SpecWorkers == InitWorkers /\ [][NextWorkers]_vars

\* no other worker handles the document of w
AloneOnDocument(w) == \A v \in Workers \ {w} : workers[v].file_id # workers[w].file_id

\* C15: calls for distinct document identities use distinct cache records.  In
\* every interleaving a complete cache record of an identity holds a Document
\* built for that identity; once a call for an identity nobody else handles has
\* written or read the record, the record holds the Document of that call; and
\* no call returns a Document of another identity.
C15_DistinctIdentitiesDoNotInterfere ==
    /\ \A id \in FileIds :
         cache[CachePath(id)] \notin {NoFile, Torn} =>
            \E w \in Workers : \E d \in workers[w].made :
                d.file_id = id /\ cache[CachePath(id)] = CacheRecord(d)
    /\ \A w \in Workers :
         (AloneOnDocument(w) /\ workers[w].pc \in {"save_md", "returned"}) =>
            /\ cache[CachePath(workers[w].file_id)] \notin {NoFile, Torn}
            /\ DocFromCache(cache[CachePath(workers[w].file_id)]) = workers[w].doc
    /\ \A w \in Workers :
         workers[w].pc = "returned" => workers[w].doc.file_id = workers[w].file_id

\* two calls for two documents have both written their records, the writes
\* overlapped, and both have returned
C15_Witness ==
    /\ workers["w1"].file_id # workers["w2"].file_id
    /\ \A w \in Workers : workers[w].pc = "returned" /\ workers[w].made # {}
    /\ \E w \in Workers : workers[w].raced
    /\ \A w \in Workers : cache[CachePath(workers[w].file_id)] = CacheRecord(workers[w].doc)

(***************************************************************************)
(* The Markdown rendition and the chunk headers                            *)
(***************************************************************************)
\* the bracketed line _build_md_text writes before a section's text
MdContextLine(d, sec) ==
    LET c0 == << d.law_short_name >>
        c1 == IF sec.part # <<>> THEN Append(c0, sec.part) ELSE c0
        c2 == IF sec.chapter # <<>> THEN Append(c1, sec.chapter) ELSE c1
    IN  <<"[">> \o JoinParts(c2) \o <<"]">>

\* C21: the context line of the Markdown rendition has the format of the
\* chunker's context header for the same section: law name with its fallback,
\* part, chapter and section label, in this order.
C21_MdContextLineIsChunkHeader ==
    \A p \in 1..(sec_i - 1) :
        p <= Len(doc.sections) =>
            MdContextLine(doc, doc.sections[p]) = ContextHeader(doc, doc.sections[p], None)

\* C22: a section longer than split_chars with a single paragraph is emitted as
\* one chunk that covers exactly that section; it shares its chunk with no
\* neighbouring section.
C22_LongSingleParagraphAlone ==
    cpc = "done" =>
        \A p \in 1..Len(doc.sections) :
            ( /\ StrLen(doc.sections[p].text) > split_chars
              /\ Len(doc.sections[p].paragraphs) = 1 )
            => /\ Cardinality(ChunksOf(p)) = 1
               /\ \A i \in ChunksOf(p) : covered[i] = <<p>>

\* the sections the loop has taken so far that are not waiting in pending
Emitted == { p \in 1..(sec_i - 1) : p <= Len(doc.sections)
                                   /\ \A k \in 1..Len(pending) : pending[k].pos # p }

\* C24: every section of the Document is represented exactly once and in
\* document order: it is listed once in section_numbers of exactly one grouped
\* chunk or gives exactly len(paragraphs) paragraph chunks; a section not yet
\* emitted has no chunk, none is left at the end, and the chunks in chunk_index
\* order visit the sections in their Document order.
C24_SectionsOnceInOrder ==
    /\ \A p \in Emitted :
          LET sec == doc.sections[p]
              cs  == ChunksOf(p)
          IN  \/ /\ Cardinality(cs) = 1
                 /\ \A i \in cs :
                       /\ IsGrouped(chunks[i])
                       /\ Cardinality({ k \in 1..Len(covered[i]) : covered[i][k] = p }) = 1
                       /\ Len(chunks[i].metadata.section_numbers) = Len(covered[i])
                       /\ \A k \in 1..Len(covered[i]) :
                             chunks[i].metadata.section_numbers[k]
                                 = doc.sections[covered[i][k]].number
              \/ /\ Cardinality(cs) = Len(sec.paragraphs)
                 /\ \A i \in cs :
                       /\ ~IsGrouped(chunks[i])
                       /\ covered[i] = <<p>>
                       /\ chunks[i].metadata.section_numbers = <<sec.number>>
    /\ \A p \in 1..Len(doc.sections) : p \notin Emitted => ChunksOf(p) = {}
    /\ cpc = "done" => Emitted = 1..Len(doc.sections)
    /\ \A i \in 1..Len(chunks) :
          /\ chunks[i].metadata.chunk_index = i - 1
          /\ \A k \in 1..(Len(covered[i]) - 1) : covered[i][k] < covered[i][k + 1]
          /\ \A j \in (i + 1)..Len(chunks) :
                covered[i][Len(covered[i])] <= covered[j][1]

C24_Witness ==
    /\ cpc = "done"
    /\ Len(doc.sections) = 3
    /\ covered = << <<1>>, <<1>>, <<2, 3>> >>

(***************************************************************************)
(* chunk_law_document on documents with more than one Part                 *)
(***************************************************************************)
\* hierarchy values of sections in two Parts: _parse_sections gives each
\* section the last Part heading and the last Chapter heading above it, so the
\* same chapter value (or no chapter) occurs under both Parts
PartHierarchies ==
    { [part |-> <<"phak 1">>, chapter |-> <<"muat 1">>],
      [part |-> <<"phak 2">>, chapter |-> <<"muat 1">>],
      [part |-> <<"phak 1">>, chapter |-> <<>>],
      [part |-> <<"phak 2">>, chapter |-> <<>>] }

MaxPartSections == 2

InitParts ==
    \E n \in 0..MaxPartSections :
    \E secs \in SectionLists(n, HeaderBlocks, PartHierarchies) :
        ChunkStart(MkDoc(DefaultShort, DefaultName, ACT, secs))

SpecParts == InitParts /\ [][Next]_vars

\* C25: all sections covered by one grouped chunk have the same part, the part
\* written in the chunk's metadata (and context header).
C25_GroupedPartPure ==
    \A i \in 1..Len(chunks) :
        IsGrouped(chunks[i]) =>
            \A k \in 1..Len(covered[i]) :
                doc.sections[covered[i][k]].part = chunks[i].metadata.part

(***************************************************************************)
(* Part and Chapter headings and the Section spans                         *)
(***************************************************************************)
\* C26: no Section's text contains a line that the first loop of
\* _parse_sections classifies as a Part marker or a Chapter marker.
C26_NoHeadingInSectionText ==
    fn_pc = "done" =>
        \A pos \in 1..Len(fn_out) :
            \A k \in 1..Len(fn_out[pos].text) :
                MarkerKind(StripLine(fn_out[pos].text[k])) \notin {"part", "chapter"}

(***************************************************************************)
(* The filename of the returned Document                                   *)
(***************************************************************************)
\* C27: the Document extract_law returns has its filename field equal to the
\* filename argument of the call, also when it is served from the cache.
C27_ReturnedFilenameIsArgument ==
    epc = "returned" => result.filename = args.filename

\* C27, amended: a call that is not served from the cache returns a Document
\* whose filename is the filename argument; a call served from the cache
\* (force false, record present) returns the filename stored in the record of
\* its file_id, whatever the filename argument is.
C27_ReturnedFilenameCachedOrArgument ==
    epc = "returned" =>
        IF hist.from_cache
        THEN /\ ~args.force
             /\ hist.cache_before[CachePath(args.file_id)] # NoFile
             /\ result.filename = hist.cache_before[CachePath(args.file_id)].filename
        ELSE result.filename = args.filename

\* a cache hit for an identity that was extracted under another filename
C27_Witness ==
    /\ epc = "returned"
    /\ hist.from_cache
    /\ result.filename # args.filename

(***************************************************************************)
(* Files written for one document identity                                 *)
(***************************************************************************)
\* C23: no file written by extract_law for one document identity (cache record
\* or Markdown backup) is overwritten by an extract_law call for a different
\* identity, whatever the filenames of the calls.
C23_NoOverwriteAcrossIdentities ==
    [][ \A w \in Workers :
          /\ ( /\ workers[w].pc = "save_md" /\ workers'[w].pc = "returned"
               /\ md_files[MdPath(workers[w].filename)] # NoFile )
             => md_files[MdPath(workers[w].filename)].md_of.file_id = workers[w].file_id
          /\ ( /\ workers[w].pc = "save_open" /\ workers'[w].pc = "save_write"
               /\ cache[CachePath(workers[w].file_id)] \notin {NoFile, Torn} )
             => cache[CachePath(workers[w].file_id)].file_id = workers[w].file_id
      ]_vars

(***************************************************************************)
(* _parse_sections applied to Sections with list items and closing         *)
(* paragraphs                                                              *)
(***************************************************************************)
MaxBodyLines == 5

\* the first line of the text: a Section marker, bare or indented with a sentence
SectionHeadLines ==
    { <<"matra", " ", "1">>,
      <<" ", "kho", " ", "th5", "/", "2", " ", "word">> }

\* the lines after it: the lines of a Section body, and the next Section marker
SectionBodyLines == ParaLines \cup { <<"matra", " ", "2">> }

InitSections ==
    /\ ChunkIdle
    /\ ExtractStart
    /\ workers = <<>>
    /\ \E head \in SectionHeadLines : \E body \in Texts(MaxBodyLines, SectionBodyLines) :
          fn_in = <<head>> \o body
    /\ fn_out = <<>>
    /\ fn_pc = "input"

SpecSections == InitSections /\ [][ApplyParseSections]_vars

RECURSIVE Flatten(_)
\* the lines of a list of paragraphs, in order
Flatten(paragraphs) ==
    IF paragraphs = <<>> THEN <<>>
    ELSE Head(paragraphs) \o Flatten(Tail(paragraphs))

IsSolidLine(l) == StripLine(l) # <<>>

\* the non-blank lines of a list of lines, each without its surrounding whitespace
SolidStripped(ls) ==
    LET solid == SelectSeq(ls, IsSolidLine)
    IN  [ k \in 1..Len(solid) |-> StripLine(solid[k]) ]

\* C28: for every parsed Section, the label followed by the lines of its
\* paragraphs is the sequence of the non-blank lines of the Section's text, each
\* exactly once and in the original order (a line is compared without its
\* surrounding whitespace, which str.strip() removes at paragraph ends).
C28_ParagraphsKeepEveryLine ==
    fn_pc = "done" =>
        \A pos \in 1..Len(fn_out) :
            SolidStripped(<<fn_out[pos].label>> \o Flatten(fn_out[pos].paragraphs))
                = SolidStripped(fn_out[pos].text)

\* a Section whose list block was merged into the paragraph before it and whose
\* closing paragraph was split off, next to a second Section
C28_Witness ==
    /\ fn_pc = "done"
    /\ Len(fn_out) = 2
    /\ \E pos \in 1..Len(fn_out) :
          /\ Len(fn_out[pos].paragraphs) = 2
          /\ Len(fn_out[pos].paragraphs[1]) = 2
          /\ ListItemMatch(StripLine(fn_out[pos].paragraphs[1][2]))
          /\ DefiniteSubjectMatch(StripLine(fn_out[pos].paragraphs[2][1]))
          /\ \E k \in 1..Len(fn_out[pos].text) : fn_out[pos].text[k] = <<>>

(***************************************************************************)
(* The section element of the context header and the Section label         *)
(***************************************************************************)
\* the keyword a label begins with (the labels of the documents here are
\* Article labels, LabelTok)
LabelKeyword(label) ==
    IF \E p \in DOMAIN LabelTok : label = <<LabelTok[p]>>
    THEN SEC_KEYWORD ELSE CLAUSE_KEYWORD

\* the bracketed header a chunk text begins with
HeaderOf(txt) ==
    LET close == CHOOSE k \in 1..Len(txt) :
                     txt[k] = "]" /\ \A j \in 1..(k - 1) : txt[j] # "]"
    IN  SubSeq(txt, 1, close)

\* C29: the section element of a chunk's context header is the keyword of the
\* label of the section the chunk starts with (Article or Clause) followed by
\* that section's number, for every law_type.
C29_HeaderKeywordIsLabelKeyword ==
    \A i \in 1..Len(chunks) :
        LET sec == doc.sections[covered[i][1]]
        IN  Contains(HeaderOf(chunks[i].text), <<LabelKeyword(sec.label)>> \o sec.number)

(***************************************************************************)
(* _normalize_section_headers, and the preprocessing of extract_law:       *)
(* _strip_page_headers, then _normalize_section_headers, then              *)
(* _parse_sections.  A text is the list of its lines (text.split("\n")).   *)
(***************************************************************************)
\* ^((?:matra|kho))\s* up to the end of the line: the keyword at the very
\* beginning of the line, nothing but spaces and tabs after it
KeywordAlone(l) ==
    /\ l # <<>>
    /\ l[1] \in {"matra", "kho"}
    /\ \A k \in 2..Len(l) : IsSpace(l[k])

\* \s*\n: the whitespace-only lines after line i are skipped
RECURSIVE NextSolidLine(_, _)
NextSolidLine(ls, i) ==
    IF i <= Len(ls) /\ IsBlank(ls[i]) THEN NextSolidLine(ls, i + 1) ELSE i

\* [ \t]*([digit]+(?:/[digit]+)?) matches at the beginning of the line
StartsWithNumeral(l) ==
    LET k == SkipSpace(l, 1) IN k <= Len(l) /\ l[k] \in Digits

\* re.sub(pattern, r"\1 \2", text, flags=re.MULTILINE), scanning from line i: a
\* match replaces the keyword line, the blank lines and the indentation of the
\* numeral line by keyword, one space, and the numeral line
RECURSIVE NormalizeFrom(_, _)
NormalizeFrom(ls, i) ==
    IF i > Len(ls) THEN <<>>
    ELSE LET j == NextSolidLine(ls, i + 1)
         IN  IF KeywordAlone(ls[i]) /\ j <= Len(ls) /\ StartsWithNumeral(ls[j])
             THEN << <<ls[i][1], " ">> \o LStrip(ls[j]) >> \o NormalizeFrom(ls, j + 1)
             ELSE <<ls[i]>> \o NormalizeFrom(ls, i + 1)

\* _normalize_section_headers(text)
normalize_section_headers(ls) == NormalizeFrom(ls, 1)

\* text.splitlines() of a text given as text.split("\n"): no empty last line
SplitLines(ls) ==
    IF ls # <<>> /\ ls[Len(ls)] = <<>> THEN SubSeq(ls, 1, Len(ls) - 1) ELSE ls

\* extract_law: text = _strip_page_headers(text);
\* text = _normalize_section_headers(text); sections = _parse_sections(text)
preprocess_and_parse(ls) ==
    LET clean == normalize_section_headers(strip_page_headers(ls))
    IN  [ full_text |-> clean, sections |-> parse_sections(SplitLines(clean)) ]

\* a split Section header in a text: the lines before it, the keyword line, the
\* lines between keyword and numeral, the numeral line, and the lines after it
MaxStamps == 1

\* a keyword alone on its line: bare, with a trailing space, indented
KeywordLines == { <<"matra">>, <<"kho", " ">>, <<" ", "matra">> }

\* a numeral line and the Section number it stands for
NumeralLines ==
    { [line |-> <<"th5", " ", "word">>,   number |-> <<"5">>],
      [line |-> <<" ", "2", "/", "th5">>, number |-> <<"2", "/", "5">>],
      [line |-> <<"1">>,                  number |-> <<"1">>] }

\* the four lines of a Gazette page stamp
PageStamp ==
    << <<"na", " ", "th5">>, <<"lem", " ", "1">>, <<"ratchakitcha">>,
       <<"2", " ", "kumphaphan", " ", "th5">> >>

RECURSIVE Betweens(_)
\* up to n page stamps, with or without blank lines around them
Betweens(n) ==
    IF n = 0 THEN { <<>>, << <<>> >> }
    ELSE Betweens(n - 1)
         \cup { b \o PageStamp \o t : b \in Betweens(n - 1), t \in { <<>>, << <<>> >> } }

SplitHeaderText(x) == x.before \o <<x.keyword>> \o x.between \o <<x.numeral.line>> \o x.after

InitPreprocess ==
    /\ ChunkIdle
    /\ ExtractStart
    /\ workers = <<>>
    /\ fn_in \in [ before  : { <<>>, << <<"word">> >> },
                   keyword : KeywordLines,
                   between : Betweens(MaxStamps),
                   numeral : NumeralLines,
                   after   : { <<>>, << <<"word">> >> } ]
    /\ fn_out = <<>>
    /\ fn_pc = "input"

ApplyPreprocessAndParse ==
    /\ fn_pc = "input"
    /\ fn_out' = preprocess_and_parse(SplitHeaderText(fn_in))
    /\ fn_pc' = "done"
    /\ UNCHANGED <<fn_in, workers, chunk_vars, extract_vars>>

SpecPreprocess == InitPreprocess /\ [][ApplyPreprocessAndParse]_vars

\* the inline header of a split header: keyword, one space, the numeral line
InlineHeader(x) == <<StripLine(x.keyword)[1], " ">> \o StripLine(x.numeral.line)

\* C30: after page-stamp stripping and then header normalization, a Section
\* keyword that stood alone on a line with its numeral on a following line, with
\* or without a page stamp between the two, is one inline header line, and
\* _parse_sections records it as a Section marker with that numeral (Thai or
\* Arabic).
C30_SplitHeaderBecomesSectionMarker ==
    fn_pc = "done" =>
        /\ \E k \in 1..Len(fn_out.full_text) :
              StripLine(fn_out.full_text[k]) = InlineHeader(fn_in)
        /\ \E pos \in 1..Len(fn_out.sections) :
              /\ fn_out.sections[pos].label = InlineHeader(fn_in)
              /\ fn_out.sections[pos].number = fn_in.numeral.number

\* the same statement for keywords that begin their line (checked apart: it
\* holds, the indented keyword is the case that fails)
UnindentedSplitHeaderBecomesSectionMarker ==
    (fn_pc = "done" /\ ~IsSpace(fn_in.keyword[1])) =>
        /\ \E k \in 1..Len(fn_out.full_text) :
              StripLine(fn_out.full_text[k]) = InlineHeader(fn_in)
        /\ \E pos \in 1..Len(fn_out.sections) :
              /\ fn_out.sections[pos].label = InlineHeader(fn_in)
              /\ fn_out.sections[pos].number = fn_in.numeral.number

====
